---- MODULE Spec2Model ----
(***************************************************************************)
(* AX.25 connected-mode data link state machine of rax25 (src/state.rs),   *)
(* driven by the events the engine (src/async.rs) feeds to state::handle.  *)
(*                                                                         *)
(* Conventions:                                                            *)
(*  - `state` is the name of the current State object, `data` the Data     *)
(*    struct, one record field per struct field.  The fields h_written,    *)
(*    h_sent, h_ns and h_panic of `data` and the variable h_sabm are       *)
(*    history: the number of bytes accepted by Connected::data, the        *)
(*    payload bytes and the N(S) of the I-frames flush() emitted, whether  *)
(*    a Rust panic happened, and the SABMs sent by an unanswered Connect.  *)
(*  - A method `fn f(&mut self, ..) -> Vec<Action>` is an operator that    *)
(*    returns [d |-> the Data afterwards, a |-> the actions].              *)
(*  - handle returns the ReturnEvents to its caller; they are no state.    *)
(*    Properties of what an event returns are stated over                  *)
(*    Handled(ev), handle applied to the current state.                    *)
(*  - The application's byte stream is 1, 2, 3, ...: the n-th byte ever    *)
(*    accepted has value n (the code never looks at byte values).          *)
(*  - A timer is [running, due]; `due` says that now > expiry.  The engine *)
(*    feeds T1 (T3) at a moment the timer is due; every handler stops or   *)
(*    restarts it.                                                         *)
(*  - `client` holds the Client fields that only wait_event and read() use *)
(*    (eof, incoming, incoming_frames) and where the application's read()  *)
(*    stands.  state::handle never sees them.  SpecRead observes them; the *)
(*    other specifications observe the state machine only and carry        *)
(*    `client` as Unobserved.                                              *)
(*  - `probe` holds the arguments and the result of a pure function that   *)
(*    SpecRange, SpecSweep or SpecCodec applies; it is Unobserved          *)
(*    elsewhere.                                                           *)
(*  - `link` holds a second instance of the state machine (the far station *)
(*    M0THC-2) and the frames in flight between the two; only SpecPair     *)
(*    observes it.                                                         *)
(***************************************************************************)
EXTENDS Integers, Sequences, FiniteSets, TLC

\* ------------------------------------------------------------ bounds
\* mtu_out of the modelled connection (ConnectionBuilder::mtu).
MTU == 1
\* Bytes the application writes in total.
MaxData == 2
\* Longest payload of one Data event.
MaxChunk == 2
\* Highest V(R) the peer's in-sequence I-frames drive the receiver to.
MaxRecv == 1
\* T1 expires only while RC is below this.
MaxExpiry == 2
\* Bytes the application writes in total in a bulk transfer.
MaxBulk == 5
\* Frames one read of the port brings in.
MaxFrames == 2
\* Bytes that follow the first control byte of a parsed frame.
MaxTail == 2
\* Frames in flight in one direction between two stations; a frame sent
\* beyond that is lost.
MaxInFlight == 2
\* For modulus 128, in_range is swept over the N(R) at most this far from V(A)
\* and from V(S).
MaxOffset == 2

\* ------------------------------------------------------------ program constants
DEFAULT_SRT == 3000
DEFAULT_MTU_IN == 65535
MAX_OBUF_SIZE == 100000000
DEFAULT_T3V == 10000
DEFAULT_N2 == 10

Me == "M0THC-1"
Peers == {"M0THC-2"}
None == "None"

Unobserved == "Unobserved"

VARIABLES state, data, h_sabm, client, probe, link

vars == <<state, data, h_sabm, client, probe, link>>

\* ------------------------------------------------------------ Timer
Timer_default == [running |-> FALSE, due |-> FALSE]

Timer_start == [running |-> TRUE, due |-> FALSE]

Timer_stop == [running |-> FALSE, due |-> FALSE]

Timer_restart == Timer_start

is_expired(t) == t.running /\ t.due

\* ------------------------------------------------------------ Data
Data_new(me, able) ==
    [ me |-> me, peer |-> None, n1 |-> DEFAULT_MTU_IN,
      layer3_initiated |-> FALSE,
      t1 |-> Timer_default, t3 |-> Timer_default,
      vs |-> 0, va |-> 0, vr |-> 0,
      srt_default |-> DEFAULT_SRT, srt |-> DEFAULT_SRT, t1v |-> DEFAULT_SRT,
      t3v |-> DEFAULT_T3V, n2 |-> DEFAULT_N2, rc |-> 0,
      k |-> 7, modulus |-> 8,
      peer_receiver_busy |-> FALSE, reject_exception |-> FALSE,
      sreject_exception |-> 0, srej_enabled |-> FALSE,
      acknowledge_pending |-> FALSE, own_receiver_busy |-> FALSE,
      iframe_queue |-> <<>>, mtu_out |-> MTU, obuf |-> <<>>,
      iframe_resend_queue |-> <<>>, able_to_establish |-> able,
      h_written |-> 0, h_sent |-> <<>>, h_ns |-> <<>>,
      h_panic |-> FALSE ]

ext(d) == d.modulus = 128

t1_expired(d) == is_expired(d.t1)

t3_expired(d) == is_expired(d.t3)

\* Action constructors (enum Action).
ActState(s) == [t |-> "State", s |-> s]
ActDlError(c) == [t |-> "DlError", code |-> c]
SendUa(pf) == [t |-> "SendUa", pf |-> pf]
\* An RR that never carries the P/F bit.
SendRr_nofinal(pf, nr, command) == [t |-> "SendRr", pf |-> FALSE, nr |-> nr, command |-> command]

SendRr(pf, nr, command) == [t |-> "SendRr", pf |-> pf, nr |-> nr, command |-> command]
\* A REJ that always has its P/F bit set.
SendRej_final(pf, nr) == [t |-> "SendRej", pf |-> TRUE, nr |-> nr]

SendRej(pf, nr) == [t |-> "SendRej", pf |-> pf, nr |-> nr]
SendRnr(pf, nr, command) == [t |-> "SendRnr", pf |-> pf, nr |-> nr, command |-> command]
SendDisc(pf) == [t |-> "SendDisc", pf |-> pf]
SendIframe(i) == [t |-> "SendIframe", iframe |-> i]
SendDm(pf) == [t |-> "SendDm", pf |-> pf]
SendSabm(pf) == [t |-> "SendSabm", pf |-> pf]
Deliver(p) == [t |-> "Deliver", payload |-> p]
ActEOF == [t |-> "EOF"]

\* struct Iframe.  `extra` counts payload bytes beyond the ones in `payload`
\* (a frame longer than n1 is [payload |-> <<>>, extra |-> n1 + 1]).
Iframe(ns, nr, poll, payload, extra) ==
    [ns |-> ns, nr |-> nr, poll |-> poll, pid |-> 240, payload |-> payload, extra |-> extra]

payload_len(p) == Len(p.payload) + p.extra

R(d, a) == [d |-> d, a |-> a]

ui_check(d, command, len) ==
    IF ~command THEN <<ActDlError("Q")>>
    ELSE IF len > d.n1 THEN <<ActDlError("K")>>
    ELSE <<>>

clear_iframe_queue(d) ==
    [d EXCEPT !.iframe_queue = <<>>, !.iframe_resend_queue = <<>>]

clear_exception_conditions(d) ==
    [d EXCEPT !.peer_receiver_busy = FALSE, !.reject_exception = FALSE,
              !.own_receiver_busy = FALSE, !.acknowledge_pending = FALSE,
              !.sreject_exception = 0, !.iframe_queue = <<>>]

\* A link reset that clears V(R) already when the SABM is sent.
establish_data_link_reset_vr(d) ==
    LET d1 == clear_exception_conditions(d)
    IN R([d1 EXCEPT !.rc = 1, !.t3 = Timer_stop, !.t1 = Timer_restart, !.vr = 0],
         SendSabm(TRUE))

\* Returns [d, a] with a the single Action.
establish_data_link(d) ==
    LET d1 == clear_exception_conditions(d)
    IN R([d1 EXCEPT !.rc = 1, !.t3 = Timer_stop, !.t1 = Timer_restart],
         SendSabm(TRUE))

\* An N(R) error recovery that does not report the error.
nr_error_recovery_silent(d) ==
    LET e == establish_data_link([d EXCEPT !.layer3_initiated = FALSE])
    IN R(e.d, <<e.a>>)

nr_error_recovery(d) ==
    LET e == establish_data_link([d EXCEPT !.layer3_initiated = FALSE])
    IN R(e.d, <<ActDlError("J"), e.a>>)

\* The enquiry response of the 1998 state diagram: an RR/RNR command.
enquiry_response_command(d, pf) ==
    LET d1 == [d EXCEPT !.acknowledge_pending = FALSE]
    IN IF d.own_receiver_busy
       THEN R(d1, SendRnr(pf, d.vr, TRUE))
       ELSE R(d1, SendRr(pf, d.vr, TRUE))

\* Returns [d, a] with a the single Action.
enquiry_response(d, pf) ==
    LET d1 == [d EXCEPT !.acknowledge_pending = FALSE]
    IN IF d.own_receiver_busy
       THEN R(d1, SendRnr(pf, d.vr, FALSE))
       ELSE R(d1, SendRr(pf, d.vr, FALSE))

check_need_for_response(d, command, pf) ==
    IF command /\ pf THEN LET e == enquiry_response(d, TRUE) IN R(e.d, <<e.a>>)
    ELSE IF ~command /\ pf THEN R(d, <<ActDlError("A")>>)
    ELSE R(d, <<>>)

invoke_retransmission(d, nr) ==
    [i \in 1..Len(d.iframe_resend_queue) |-> SendIframe(d.iframe_resend_queue[i])]

select_t1_value(d) ==
    IF d.rc = 0 THEN [d EXCEPT !.srt = d.srt_default]
    ELSE IF t1_expired(d) THEN [d EXCEPT !.srt = d.rc * 250 + d.srt + d.srt]
    ELSE d

\* Returns [d, a] with a the single Action.
transmit_enquiry(d) ==
    LET d1 == [d EXCEPT !.acknowledge_pending = FALSE, !.t1 = Timer_start]
    IN IF d.own_receiver_busy
       THEN R(d1, SendRnr(TRUE, d.vr, TRUE))
       ELSE R(d1, SendRr(TRUE, d.vr, TRUE))

set_version_2_2(d) == [d EXCEPT !.modulus = 128, !.k = 32, !.n2 = 10]

set_version_2(d) == [d EXCEPT !.modulus = 8, !.k = 4, !.n2 = 10]

Min(a, b) == IF a < b THEN a ELSE b

\* A flush that takes the newest bytes of obuf first.
RECURSIVE flush_loop_lifo(_, _)
flush_loop_lifo(d, act) ==
    IF d.obuf = <<>> THEN R(d, act)
    ELSE IF d.vs = (d.va + d.k) % d.modulus THEN R(d, act)
    ELSE
      LET n == Min(d.mtu_out, Len(d.obuf))
          payload == SubSeq(d.obuf, Len(d.obuf) - n + 1, Len(d.obuf))
          i == Iframe(d.vs, d.vr, FALSE, payload, 0)
          d1 == [d EXCEPT !.obuf = SubSeq(d.obuf, 1, Len(d.obuf) - n),
                          !.vs = (d.vs + 1) % d.modulus,
                          !.iframe_resend_queue = Append(d.iframe_resend_queue, i),
                          !.h_sent = d.h_sent \o payload,
                          !.h_ns = Append(d.h_ns, d.vs)]
      IN flush_loop_lifo(d1, Append(act, SendIframe(i)))

\* A flush that starts T1 and leaves T3 running.
RECURSIVE flush_loop_keep_t3(_, _)
flush_loop_keep_t3(d, act) ==
    IF d.obuf = <<>> THEN R(d, act)
    ELSE IF d.vs = (d.va + d.k) % d.modulus THEN R(d, act)
    ELSE
      LET n == Min(d.mtu_out, Len(d.obuf))
          payload == SubSeq(d.obuf, 1, n)
          i == Iframe(d.vs, d.vr, FALSE, payload, 0)
          d1 == [d EXCEPT !.obuf = SubSeq(d.obuf, n + 1, Len(d.obuf)),
                          !.vs = (d.vs + 1) % d.modulus,
                          !.acknowledge_pending = FALSE,
                          !.t1 = IF ~d.t1.running THEN Timer_start ELSE d.t1,
                          !.iframe_resend_queue = Append(d.iframe_resend_queue, i),
                          !.h_sent = d.h_sent \o payload,
                          !.h_ns = Append(d.h_ns, d.vs)]
      IN flush_loop_keep_t3(d1, Append(act, SendIframe(i)))

RECURSIVE flush_loop(_, _)
flush_loop(d, act) ==
    IF d.obuf = <<>> THEN R(d, act)
    ELSE IF d.vs = (d.va + d.k) % d.modulus THEN R(d, act)
    ELSE
      LET n == Min(d.mtu_out, Len(d.obuf))
          payload == SubSeq(d.obuf, 1, n)
          ns == d.vs
          i == Iframe(ns, d.vr, FALSE, payload, 0)
          d1 == [d EXCEPT !.obuf = SubSeq(d.obuf, n + 1, Len(d.obuf)),
                          !.vs = (d.vs + 1) % d.modulus,
                          !.acknowledge_pending = FALSE,
                          !.t3 = IF ~d.t1.running THEN Timer_stop ELSE d.t3,
                          !.t1 = IF ~d.t1.running THEN Timer_start ELSE d.t1,
                          !.iframe_resend_queue = Append(d.iframe_resend_queue, i),
                          !.h_sent = d.h_sent \o payload,
                          !.h_ns = Append(d.h_ns, ns)]
      IN flush_loop(d1, Append(act, SendIframe(i)))

\* A flush that does not keep the I-frames it sends for retransmission.
flush_forget(d) ==
    IF d.peer_receiver_busy THEN R(d, <<>>)
    ELSE LET r == flush_loop(d, <<>>)
         IN R([r.d EXCEPT !.iframe_resend_queue = d.iframe_resend_queue], r.a)

flush(d) ==
    IF d.peer_receiver_busy THEN R(d, <<>>)
    ELSE flush_loop(d, <<>>)

RECURSIVE update_ack_loop(_, _)
update_ack_loop(d, nr) ==
    IF d.va = nr THEN d
    ELSE IF d.iframe_resend_queue = <<>> THEN [d EXCEPT !.h_panic = TRUE]
    ELSE update_ack_loop([d EXCEPT !.iframe_resend_queue = Tail(d.iframe_resend_queue),
                                   !.va = (d.va + 1) % d.modulus], nr)

update_ack(d, nr) ==
    LET d1 == update_ack_loop(d, nr)
    IN IF d1.h_panic THEN R(d1, <<>>) ELSE flush(d1)

\* An acknowledgement of everything that stops T1 without starting T3.
check_iframe_acked_no_t3(d, nr) ==
    IF nr = d.vs THEN update_ack([d EXCEPT !.t1 = Timer_stop], nr)
    ELSE IF nr # d.va THEN update_ack([d EXCEPT !.t1 = Timer_restart], nr)
    ELSE R(d, <<>>)

check_iframe_acked(d, nr) ==
    IF d.peer_receiver_busy THEN
        update_ack([d EXCEPT !.t3 = Timer_stop,
                             !.t1 = IF ~d.t1.running THEN Timer_start ELSE d.t1], nr)
    ELSE IF nr = d.vs THEN
        update_ack(select_t1_value([d EXCEPT !.t1 = Timer_stop, !.t3 = Timer_start]), nr)
    ELSE IF nr # d.va THEN
        update_ack([d EXCEPT !.t1 = Timer_restart], nr)
    ELSE R(d, <<>>)

\* The number of times the loop of in_range steps t = (t + 1) % modulus
\* before it returns: t starts at va and the loop returns at the first t that
\* is nr or vs.
in_range_steps(va, nr, vs, modulus) ==
    LET hits == {i \in 0..(modulus - 1) : (va + i) % modulus \in {nr, vs}}
    IN CHOOSE i \in hits : \A j \in hits : i <= j

\* A range check that looks for V(S) before it looks for N(R).
in_range_vs_first(va, nr, vs, modulus) ==
    LET t == (va + in_range_steps(va, nr, vs, modulus)) % modulus
    IN t # vs

\* A range check that leaves out the lower end V(A).
in_range_above(va, nr, vs, modulus) ==
    LET t == (va + in_range_steps(va, nr, vs, modulus)) % modulus
    IN t = nr /\ nr # va

\* `if t == nr { return true; } if t == vs { return false; }`
in_range(va, nr, vs, modulus) ==
    LET t == (va + in_range_steps(va, nr, vs, modulus)) % modulus
    IN t = nr

\* ------------------------------------------------------------ trait State defaults
State_default(d, ev) ==
    IF ev.t = "T1" THEN R([d EXCEPT !.t1 = Timer_stop], <<>>)
    ELSE IF ev.t = "T3" THEN R([d EXCEPT !.t3 = Timer_stop], <<>>)
    ELSE R(d, <<>>)

\* ------------------------------------------------------------ Disconnected
\* An incoming connection that keeps the retry count of an earlier attempt.
Disconnected_sabm_and_sabme_keep_rc(d, src, pf) ==
    IF ~d.able_to_establish THEN R(d, <<SendDm(pf)>>)
    ELSE
      LET d1 == clear_exception_conditions(d)
      IN R([d1 EXCEPT !.vs = 0, !.va = 0, !.vr = 0, !.t3 = Timer_start,
                      !.peer = src, !.h_ns = <<>>],
           <<SendUa(pf), ActState("Connected")>>)

Disconnected_sabm_and_sabme(d, src, pf) ==
    IF ~d.able_to_establish THEN R(d, <<SendDm(pf)>>)
    ELSE
      LET d1 == clear_exception_conditions(d)
          d2 == [d1 EXCEPT !.vs = 0, !.va = 0, !.vr = 0,
                           !.srt = d1.srt_default,
                           !.t1v = d1.srt_default + d1.srt_default,
                           !.t3 = Timer_start, !.rc = 0, !.peer = src,
                           !.h_ns = <<>>]
      IN R(d2, <<SendUa(pf), ActState("Connected")>>)

Disconnected_connect(d, addr, e) ==
    LET d1 == [d EXCEPT !.modulus = IF e THEN 128 ELSE 8,
                        !.peer = addr,
                        !.srt = d.srt_default,
                        !.t1v = 2 * d.srt_default,
                        !.layer3_initiated = TRUE]
        r == establish_data_link(d1)
    IN R(r.d, <<ActState("AwaitingConnection"), r.a>>)

Disconnected_ui(d, cr, packet) ==
    LET a == ui_check(d, cr, packet.len)
    IN R(d, IF packet.push THEN Append(a, SendDm(TRUE)) ELSE a)

Disconnected_sabm(d, src, packet) ==
    Disconnected_sabm_and_sabme(set_version_2(d), src, packet.poll)

Disconnected_sabme(d, src, packet) ==
    Disconnected_sabm_and_sabme(set_version_2_2(d), src, packet.poll)

Disconnected_ua(d) == R(d, <<ActDlError("C"), ActDlError("D")>>)

Disconnected_disc(d, packet) == R(d, <<SendDm(packet.poll)>>)

Disconnected(d, ev) ==
    CASE ev.t = "Connect" -> Disconnected_connect(d, ev.addr, ev.ext)
      [] ev.t = "Disconnect" -> R(d, <<>>)
      [] ev.t = "Ui" -> Disconnected_ui(d, ev.command, ev)
      [] ev.t = "Sabm" -> Disconnected_sabm(d, ev.src, ev)
      [] ev.t = "Sabme" -> Disconnected_sabme(d, ev.src, ev)
      [] ev.t = "Dm" -> R(d, <<>>)
      [] ev.t = "Ua" -> Disconnected_ua(d)
      [] ev.t = "Disc" -> Disconnected_disc(d, ev)
      [] OTHER -> State_default(d, ev)

\* ------------------------------------------------------------ AwaitingConnection
\* A T1 handler that retries without looking at the retry budget.
AwaitingConnection_t1_forever(d) ==
    R([d EXCEPT !.rc = d.rc + 1, !.t1 = Timer_start], <<SendSabm(TRUE)>>)

AwaitingConnection_t1(d) ==
    LET d1 == [d EXCEPT !.t1 = Timer_stop]
    IN IF d1.rc = d1.n2
       THEN R(clear_iframe_queue(d1), <<ActDlError("G"), ActState("Disconnected")>>)
       ELSE LET d2 == select_t1_value([d1 EXCEPT !.rc = d1.rc + 1])
            IN R([d2 EXCEPT !.t1 = Timer_start], <<SendSabm(TRUE)>>)

AwaitingConnection_ua(d, packet) ==
    IF ~packet.poll THEN R(d, <<ActDlError("D")>>)
    ELSE
      LET d1 == IF ~d.layer3_initiated /\ d.vs # d.va
                THEN [d EXCEPT !.srt = d.srt_default,
                               !.t1v = d.srt_default + d.srt_default]
                ELSE d
          d2 == [d1 EXCEPT !.t1 = Timer_stop, !.t3 = Timer_start,
                           !.vs = 0, !.va = 0, !.vr = 0, !.rc = 0,
                           !.h_ns = <<>>]
      IN R(select_t1_value(d2), <<ActState("Connected")>>)

AwaitingConnection_sabm(d, packet) == R(d, <<SendUa(packet.poll)>>)

AwaitingConnection_sabme(d, packet) == R(d, <<SendDm(packet.poll)>>)

AwaitingConnection_disconnect(d) ==
    R([d EXCEPT !.t1 = Timer_stop], <<SendDisc(TRUE), ActState("Disconnected")>>)

AwaitingConnection(d, ev) ==
    CASE ev.t = "T1" -> AwaitingConnection_t1(d)
      [] ev.t = "Ua" -> AwaitingConnection_ua(d, ev)
      [] ev.t = "Sabm" -> AwaitingConnection_sabm(d, ev)
      [] ev.t = "Sabme" -> AwaitingConnection_sabme(d, ev)
      [] ev.t = "Disconnect" -> AwaitingConnection_disconnect(d)
      [] OTHER -> State_default(d, ev)

\* ------------------------------------------------------------ AwaitingRelease
AwaitingRelease_dm(d, p) ==
    IF ~p.poll THEN R(d, <<>>)
    ELSE R([d EXCEPT !.t1 = Timer_stop], <<ActState("Disconnected")>>)

AwaitingRelease_ua(d, p) ==
    IF ~p.poll THEN R(d, <<ActDlError("D")>>)
    ELSE R([d EXCEPT !.t1 = Timer_stop], <<ActState("Disconnected")>>)

\* A T1 handler that gives up one expiry too late.
AwaitingRelease_t1_late(d) ==
    LET d1 == [d EXCEPT !.t1 = Timer_stop]
    IN IF d1.rc > d1.n2
       THEN R([d1 EXCEPT !.t3 = Timer_stop],
              <<ActDlError("H"), ActState("Disconnected")>>)
       ELSE LET d2 == select_t1_value([d1 EXCEPT !.rc = d1.rc + 1])
            IN R([d2 EXCEPT !.t1 = Timer_start], <<SendDisc(TRUE)>>)

\* A T1 handler that keeps resending DISC once RC has reached N2.
AwaitingRelease_t1_stuck(d) ==
    LET d1 == [d EXCEPT !.t1 = Timer_stop]
    IN R([d1 EXCEPT !.rc = IF d1.rc = d1.n2 THEN d1.rc ELSE d1.rc + 1,
                    !.t1 = Timer_start],
         <<SendDisc(TRUE)>>)

AwaitingRelease_t1(d) ==
    LET d1 == [d EXCEPT !.t1 = Timer_stop]
    IN IF d1.rc = d1.n2
       THEN R([d1 EXCEPT !.t3 = Timer_stop],
              <<ActDlError("H"), ActState("Disconnected")>>)
       ELSE LET d2 == select_t1_value([d1 EXCEPT !.rc = d1.rc + 1])
            IN R([d2 EXCEPT !.t1 = Timer_start], <<SendDisc(TRUE)>>)

AwaitingRelease_disconnect(d) ==
    R([d EXCEPT !.t1 = Timer_stop], <<SendDm(FALSE), ActState("Disconnected")>>)

AwaitingRelease(d, ev) ==
    CASE ev.t = "Dm" -> AwaitingRelease_dm(d, ev)
      [] ev.t = "Ua" -> AwaitingRelease_ua(d, ev)
      [] ev.t = "T1" -> AwaitingRelease_t1(d)
      [] ev.t = "Disconnect" -> AwaitingRelease_disconnect(d)
      [] OTHER -> State_default(d, ev)

\* ------------------------------------------------------------ Connected / TimerRecovery
\* `cs` is self.connected_state: "Connected" or "TimerRecovery".
Connected_rr_connected(d, packet, cr) ==
    LET c == check_need_for_response([d EXCEPT !.peer_receiver_busy = FALSE],
                                     cr, packet.poll)
    IN IF ~in_range(c.d.va, packet.nr, c.d.vs, c.d.modulus)
       THEN LET e == nr_error_recovery(c.d)
            IN R(e.d, c.a \o e.a \o <<ActState("AwaitingConnection")>>)
       ELSE LET e == check_iframe_acked(c.d, packet.nr)
            IN R(e.d, c.a \o e.a)

Connected_rr_timer_recovery(d, packet, cr) ==
    LET d0 == [d EXCEPT !.peer_receiver_busy = FALSE]
    IN IF ~cr /\ packet.poll THEN
         LET d1 == select_t1_value([d0 EXCEPT !.t1 = Timer_stop])
         IN IF ~in_range(d1.va, packet.nr, d1.vs, d1.modulus)
            THEN LET e == nr_error_recovery(d1)
                 IN R(e.d, Append(e.a, ActState("AwaitingConnection")))
            ELSE LET u == update_ack(d1, packet.nr)
                 IN IF u.d.h_panic THEN u
                    ELSE IF u.d.vs = u.d.va
                    THEN R([u.d EXCEPT !.t3 = Timer_start, !.rc = 0],
                           Append(u.a, ActState("Connected")))
                    ELSE R([u.d EXCEPT !.t3 = Timer_stop, !.t1 = Timer_start,
                                       !.acknowledge_pending = TRUE],
                           u.a \o invoke_retransmission(u.d, packet.nr))
       ELSE
         LET c == IF cr /\ packet.poll
                  THEN LET e == enquiry_response(d0, TRUE) IN R(e.d, <<e.a>>)
                  ELSE R(d0, <<>>)
         IN IF in_range(c.d.va, packet.nr, c.d.vs, c.d.modulus)
            THEN LET u == update_ack(c.d, packet.nr) IN R(u.d, c.a \o u.a)
            ELSE LET e == nr_error_recovery(c.d)
                 IN R(e.d, c.a \o e.a \o <<ActState("AwaitingConnection")>>)

\* A link reset that leaves T1 as it was.
Connected_sabm_or_sabme_keep_t1(cs, d, poll) ==
    LET d1 == clear_exception_conditions(d)
        d2 == [d1 EXCEPT !.t3 = Timer_start,
                         !.va = 0, !.vs = 0, !.vr = 0,
                         !.rc = IF cs = "Connected" THEN 0 ELSE d1.rc,
                         !.h_ns = <<>>]
    IN R(d2, <<ActDlError("F"), SendUa(poll), ActState("Connected")>>)

Connected_sabm_or_sabme(cs, d, poll) ==
    LET d1 == clear_exception_conditions(d)
        d2 == [d1 EXCEPT !.t1 = Timer_stop, !.t3 = Timer_start,
                         !.va = 0, !.vs = 0, !.vr = 0,
                         !.rc = IF cs = "Connected" THEN 0 ELSE d1.rc,
                         !.h_ns = <<>>]
    IN R(d2, <<ActDlError("F"), SendUa(poll), ActState("Connected")>>)

Connected_disconnect(d) ==
    LET d1 == clear_iframe_queue(d)
    IN R([d1 EXCEPT !.rc = 0, !.t1 = Timer_start, !.t3 = Timer_stop],
         <<SendDisc(TRUE), ActState("AwaitingRelease")>>)

\* `payload` holds the bytes h_written + 1 .. h_written + Len(payload).
Connected_data(d, payload) ==
    LET d1 == [d EXCEPT !.obuf = d.obuf \o payload,
                        !.h_written = d.h_written + Len(payload)]
    IN IF Len(d1.obuf) > MAX_OBUF_SIZE
       THEN R([d1 EXCEPT !.h_panic = TRUE], <<>>)
       ELSE flush(d1)

Connected_sabm(cs, d, packet) == Connected_sabm_or_sabme(cs, set_version_2(d), packet.poll)

Connected_sabme(cs, d, packet) == Connected_sabm_or_sabme(cs, set_version_2_2(d), packet.poll)

Connected_dm(d) ==
    LET d1 == clear_iframe_queue(d)
    IN R([d1 EXCEPT !.t1 = Timer_stop, !.t3 = Timer_stop],
         <<ActDlError("E"), ActState("Disconnected")>>)

\* A disc that leaves the queues and T1 as they are.
Connected_disc_keep_queue(d, p) ==
    R([d EXCEPT !.t3 = Timer_stop],
      <<SendUa(p.poll), ActEOF, ActState("Disconnected")>>)

Connected_disc(d, p) ==
    LET d1 == clear_iframe_queue(d)
    IN R([d1 EXCEPT !.t1 = Timer_stop, !.t3 = Timer_stop],
         <<SendUa(p.poll), ActEOF, ActState("Disconnected")>>)

\* A receiver that takes any N(S) for the expected one.
in_sequence_any(d, p) == TRUE

\* A receiver that also takes the frame after the expected one.
in_sequence_skip(d, p) == p.ns \in {d.vr, (d.vr + 1) % d.modulus}

\* `if p.ns == data.vr`
in_sequence(d, p) == p.ns = d.vr

\* Connected::iframe from `actions.extend(data.check_iframe_acked(p.nr))` on,
\* with c what check_iframe_acked returned.
Connected_iframe_acked(c, p) ==
      LET d1 == c.d
          actions == c.a
          noack == [d1 EXCEPT !.acknowledge_pending = FALSE]
      IN IF d1.h_panic THEN c
         ELSE IF d1.own_receiver_busy THEN
           IF p.poll THEN R(noack, Append(actions, SendRnr(TRUE, d1.vr, FALSE)))
           ELSE R(d1, actions)
         ELSE IF in_sequence(d1, p) THEN
           LET vr1 == (d1.vr + 1) % d1.modulus
               d2 == [d1 EXCEPT !.vr = vr1, !.reject_exception = FALSE,
                                !.sreject_exception = IF @ > 0 THEN @ - 1 ELSE @]
               a2 == Append(actions, Deliver(p.payload))
           IN IF p.poll
              THEN R([d2 EXCEPT !.acknowledge_pending = FALSE],
                     Append(a2, SendRr(TRUE, vr1, FALSE)))
              ELSE R([d2 EXCEPT !.acknowledge_pending = TRUE], a2)
         ELSE IF d1.reject_exception THEN
           IF p.poll THEN R(noack, Append(actions, SendRr(TRUE, d1.vr, FALSE)))
           ELSE R(d1, actions)
         ELSE IF ~d1.srej_enabled THEN
           R([noack EXCEPT !.reject_exception = TRUE],
             Append(actions, SendRej(p.poll, d1.vr)))
         ELSE IF d1.sreject_exception > 0 THEN
           R([noack EXCEPT !.sreject_exception = @ + 1], actions)
         ELSE IF p.ns # (d1.vr + 1) % d1.modulus THEN
           R(noack, Append(actions, SendRej(p.poll, d1.vr)))
         ELSE R([noack EXCEPT !.sreject_exception = @ + 1], actions)

Connected_iframe(cs, d, p, command_response) ==
    IF ~command_response THEN R(d, <<ActDlError("S")>>)
    ELSE IF payload_len(p) > d.n1 THEN
      LET e == establish_data_link([d EXCEPT !.layer3_initiated = FALSE])
      IN R(e.d, <<e.a, ActDlError("O"), ActState("AwaitingConnection")>>)
    ELSE IF ~in_range(d.va, p.nr, d.vs, d.modulus) THEN
      LET e == nr_error_recovery(d)
      IN R(e.d, Append(e.a, ActState("AwaitingConnection")))
    ELSE Connected_iframe_acked(check_iframe_acked(d, p.nr), p)

\* A T1 expiry that gives up one expiry late.
Connected_t1_late(cs, d) ==
    LET d1 == [d EXCEPT !.t1 = Timer_stop,
                        !.rc = IF cs = "Connected" THEN 1 ELSE d.rc + 1]
    IN IF d1.rc <= d1.n2
       THEN LET e == transmit_enquiry(d1)
            IN R(e.d, <<e.a, ActState("TimerRecovery")>>)
       ELSE LET d2 == clear_iframe_queue(d1)
                code == IF d2.vs # d2.va THEN "I"
                        ELSE IF d2.peer_receiver_busy THEN "U" ELSE "T"
            IN R(d2, <<ActDlError(code), SendDm(FALSE), ActState("Disconnected")>>)

Connected_t1(cs, d) ==
    LET d1 == [d EXCEPT !.t1 = Timer_stop,
                        !.rc = IF cs = "Connected" THEN 1 ELSE d.rc + 1]
    IN IF d1.rc # d1.n2
       THEN LET e == transmit_enquiry(d1)
            IN R(e.d, <<e.a, ActState("TimerRecovery")>>)
       ELSE LET d2 == clear_iframe_queue(d1)
                code == IF d2.vs # d2.va THEN "I"
                        ELSE IF d2.peer_receiver_busy THEN "U" ELSE "T"
            IN R(d2, <<ActDlError(code), SendDm(FALSE), ActState("Disconnected")>>)

\* A T3 expiry that stops T3 and sends no enquiry.
Connected_t3_silent(cs, d) == R([d EXCEPT !.t3 = Timer_stop], <<>>)

Connected_t3(cs, d) ==
    LET e == transmit_enquiry([d EXCEPT !.t3 = Timer_stop, !.rc = 1])
    IN R(e.d, <<ActState("TimerRecovery"), e.a>>)

Connected_ua(d) ==
    LET e == establish_data_link([d EXCEPT !.layer3_initiated = FALSE])
    IN R(e.d, <<ActDlError("C"), e.a, ActState("AwaitingConnection")>>)

Connected_frmr(d) ==
    LET e == establish_data_link([d EXCEPT !.layer3_initiated = FALSE])
    IN R(e.d, <<ActDlError("K"), e.a, ActState("AwaitingConnection")>>)

Connected_ui(d, cr, packet) ==
    LET a == ui_check(d, cr, packet.len)
    IN IF packet.push
       THEN LET e == enquiry_response(d, TRUE) IN R(e.d, Append(a, e.a))
       ELSE R(d, a)

Connected_rr(cs, d, packet, cr) ==
    IF cs = "Connected" THEN Connected_rr_connected(d, packet, cr)
    ELSE Connected_rr_timer_recovery(d, packet, cr)

Connected(cs, d, ev) ==
    CASE ev.t = "Disconnect" -> Connected_disconnect(d)
      [] ev.t = "Data" -> Connected_data(d, ev.payload)
      [] ev.t = "Sabm" -> Connected_sabm(cs, d, ev)
      [] ev.t = "Sabme" -> Connected_sabme(cs, d, ev)
      [] ev.t = "Dm" -> Connected_dm(d)
      [] ev.t = "Disc" -> Connected_disc(d, ev)
      [] ev.t = "Iframe" -> Connected_iframe(cs, d, ev.iframe, ev.command)
      [] ev.t = "T1" -> Connected_t1(cs, d)
      [] ev.t = "T3" -> Connected_t3(cs, d)
      [] ev.t = "Ua" -> Connected_ua(d)
      [] ev.t = "Frmr" -> Connected_frmr(d)
      [] ev.t = "Ui" -> Connected_ui(d, ev.command, ev)
      [] ev.t = "Rr" -> Connected_rr(cs, d, ev, ev.command)
      [] OTHER -> State_default(d, ev)

\* ------------------------------------------------------------ handle
SendKinds == {"SendSabm", "SendDisc", "SendUa", "SendDm", "SendRej", "SendRr",
              "SendRnr", "SendIframe"}

IsStateAct(a) == a.t = "State"

NotStateAct(a) == a.t # "State"

\* A packet whose two command/response bits are both the command bit.
Packet_same_bits(d, command, pt) ==
    [kind |-> "Packet", src |-> d.me, dst |-> d.peer,
     command_response |-> command, command_response_la |-> command,
     digipeater |-> <<>>, rr_dist1 |-> FALSE, rr_extseq |-> FALSE,
     packet_type |-> pt]

Packet(d, command, pt) ==
    [kind |-> "Packet", src |-> d.me, dst |-> d.peer,
     command_response |-> command, command_response_la |-> ~command,
     digipeater |-> <<>>, rr_dist1 |-> FALSE, rr_extseq |-> FALSE,
     packet_type |-> pt]

ReturnEvent(d, act) ==
    CASE act.t = "DlError" -> [kind |-> "DlError", code |-> act.code]
      [] act.t = "SendSabm" -> Packet(d, TRUE, [t |-> "Sabm", poll |-> act.pf])
      [] act.t = "SendDisc" -> Packet(d, TRUE, [t |-> "Disc", poll |-> act.pf])
      [] act.t = "SendUa" -> Packet(d, FALSE, [t |-> "Ua", poll |-> act.pf])
      [] act.t = "SendDm" -> Packet(d, FALSE, [t |-> "Dm", poll |-> act.pf])
      [] act.t = "SendRej" ->
           Packet(d, FALSE, [t |-> "Rej", poll |-> act.pf, nr |-> act.nr])
      [] act.t = "SendRr" ->
           Packet(d, act.command, [t |-> "Rr", poll |-> act.pf, nr |-> act.nr])
      [] act.t = "SendRnr" ->
           Packet(d, act.command, [t |-> "Rnr", poll |-> act.pf, nr |-> act.nr])
      [] act.t = "SendIframe" ->
           Packet(d, TRUE, [t |-> "Iframe", iframe |-> act.iframe])
      [] act.t = "Deliver" -> [kind |-> "Data", res |-> "Some", payload |-> act.payload]
      [] act.t = "EOF" -> [kind |-> "Data", res |-> "EOF"]

\* The loop of handle over the Actions r.a the state handler returned, with
\* r.d the Data it left.  data.peer.unwrap() on None and a failed assert! are
\* panics: h_panic is set and nothing is returned.
handle_actions(r) ==
    LET out == SelectSeq(r.a, NotStateAct)
        states == SelectSeq(r.a, IsStateAct)
        unwrap_none == r.d.peer = None /\ \E i \in 1..Len(out) : out[i].t \in SendKinds
        panic == r.d.h_panic \/ unwrap_none
    IN [state |-> IF panic \/ states = <<>> THEN None ELSE states[1].s,
        d |-> [r.d EXCEPT !.h_panic = panic],
        ret |-> IF panic THEN <<>> ELSE [i \in 1..Len(out) |-> ReturnEvent(r.d, out[i])]]

\* Returns [state |-> the new state or None, d |-> Data afterwards, ret |-> the
\* ReturnEvents].
handle(st, d, ev) ==
    handle_actions(CASE st = "Disconnected" -> Disconnected(d, ev)
                     [] st = "AwaitingConnection" -> AwaitingConnection(d, ev)
                     [] st = "AwaitingRelease" -> AwaitingRelease(d, ev)
                     [] st = "Connected" -> Connected("Connected", d, ev)
                     [] st = "TimerRecovery" -> Connected("TimerRecovery", d, ev))

\* ------------------------------------------------------------ the engine
\* The engine feeds T1 (T3) when the timer is running and now > expiry.
Expire(t) == [data EXCEPT ![t].due = TRUE]

\* What handle returns for event ev in the current state.
Handled(ev) ==
    handle(state,
           IF ev.t = "T1" THEN Expire("t1") ELSE IF ev.t = "T3" THEN Expire("t3") ELSE data,
           ev)

IsSabm(e) == e.kind = "Packet" /\ e.packet_type.t = "Sabm"

IsPacket(e) == e.kind = "Packet"

IsIframePacket(e) == e.kind = "Packet" /\ e.packet_type.t = "Iframe"

\* Client::actions: feed one event to handle and install the new state.
\* h_sabm counts the SABMs sent by a Connect and the T1 expiries right after it.
actions_install(ev, h) ==
    LET n == Len(SelectSeq(h.ret, IsSabm))
    IN /\ state' = IF h.state = None THEN state ELSE h.state
       /\ data' = h.d
       /\ h_sabm' = CASE ev.t = "Connect" /\ state = "Disconnected" -> n
                      [] ev.t = "T1" /\ h_sabm > 0 /\ state = "AwaitingConnection" -> h_sabm + n
                      [] OTHER -> 0
       /\ UNCHANGED <<client, probe, link>>

actions(ev) == actions_install(ev, Handled(ev))

\* The task runs until an event makes it panic.
Alive == ~data.h_panic

\* N(R) of a received frame: every value from one before V(A) to one after
\* V(S), so both ends of the window and both sides outside it.
NrInputs ==
    LET m == data.modulus
        n == (data.vs + m - data.va) % m
    IN {(data.va + m - 1 + i) % m : i \in 0..(n + 2)}

\* N(S) of a received I-frame: the expected one, the one after it, the one
\* before it (a duplicate).  The peer sends at most MaxRecv new frames.
NsInputs ==
    (IF data.vr < MaxRecv THEN {data.vr} ELSE {})
       \cup {(data.vr + 1) % data.modulus, (data.vr + data.modulus - 1) % data.modulus}

\* The peer's I-frame number ns carries this payload.
RecvPayload(ns) == <<100 + ns>>

ConnectEvents == {[t |-> "Connect", addr |-> addr, ext |-> e] : addr \in Peers, e \in BOOLEAN}

DataEvents ==
    {[t |-> "Data", payload |-> [i \in 1..len |-> data.h_written + i]] :
        len \in {l \in 0..MaxChunk : data.h_written + l <= MaxData}}

SabmEvents == {[t |-> "Sabm", src |-> src, poll |-> poll] : src \in Peers, poll \in BOOLEAN}

SabmeEvents == {[t |-> "Sabme", src |-> src, poll |-> poll] : src \in Peers, poll \in BOOLEAN}

DiscEvents == {[t |-> "Disc", poll |-> poll] : poll \in BOOLEAN}

DmEvents == {[t |-> "Dm", poll |-> poll] : poll \in BOOLEAN}

UaEvents == {[t |-> "Ua", poll |-> poll] : poll \in BOOLEAN}

UiEvents ==
    {[t |-> "Ui", push |-> push, command |-> command, len |-> len] :
        push \in BOOLEAN, command \in BOOLEAN, len \in {0, DEFAULT_MTU_IN + 1}}

RrEvents ==
    {[t |-> "Rr", poll |-> poll, nr |-> nr, command |-> command] :
        poll \in BOOLEAN, nr \in NrInputs, command \in BOOLEAN}

\* I-frame commands of acceptable length.
IframeEvents ==
    {[t |-> "Iframe", command |-> TRUE, iframe |-> Iframe(ns, nr, poll, RecvPayload(ns), 0)] :
        ns \in NsInputs, nr \in NrInputs, poll \in BOOLEAN}

\* An I-frame response, and an I-frame longer than n1.
IframeBadEvents ==
    {[t |-> "Iframe", command |-> command,
      iframe |-> Iframe(data.vr, data.va, FALSE, RecvPayload(data.vr),
                        IF command THEN DEFAULT_MTU_IN + 1 ELSE 0)] :
        command \in BOOLEAN}

\* state::new() and Data::new(me), with able_to_establish as accept() or
\* connect() leave it.
InitEngine ==
    /\ state = "Disconnected"
    /\ \E able \in BOOLEAN : data = Data_new(Me, able)
    /\ h_sabm = 0

Init == InitEngine /\ client = Unobserved /\ probe = Unobserved /\ link = Unobserved

EvConnect == \E ev \in ConnectEvents : Alive /\ actions(ev)

EvDisconnect == Alive /\ actions([t |-> "Disconnect"])

EvData == \E ev \in DataEvents : Alive /\ actions(ev)

\* T1 expires at most MaxExpiry times in a row.
EvT1 == Alive /\ data.t1.running /\ data.rc < MaxExpiry /\ actions([t |-> "T1"])

\* T1 expires whenever it is running.
EvT1Any == Alive /\ data.t1.running /\ actions([t |-> "T1"])

EvT3 == Alive /\ data.t3.running /\ actions([t |-> "T3"])

EvSabm == \E ev \in SabmEvents : Alive /\ actions(ev)

EvSabme == \E ev \in SabmeEvents : Alive /\ actions(ev)

EvDisc == \E ev \in DiscEvents : Alive /\ actions(ev)

EvDm == \E ev \in DmEvents : Alive /\ actions(ev)

EvUa == \E ev \in UaEvents : Alive /\ actions(ev)

EvFrmr == Alive /\ actions([t |-> "Frmr"])

EvUi == \E ev \in UiEvents : Alive /\ actions(ev)

EvTest == \E command \in BOOLEAN : Alive /\ actions([t |-> "Test", command |-> command])

EvXid == \E command \in BOOLEAN : Alive /\ actions([t |-> "Xid", command |-> command])

EvRr == \E ev \in RrEvents : Alive /\ actions(ev)

EvRnr == \E poll \in BOOLEAN : Alive /\ actions([t |-> "Rnr", poll |-> poll, nr |-> data.va])

EvRej == \E poll \in BOOLEAN : Alive /\ actions([t |-> "Rej", poll |-> poll, nr |-> data.va])

EvSrej == \E poll \in BOOLEAN : Alive /\ actions([t |-> "Srej", poll |-> poll, nr |-> data.va])

EvIframe == \E ev \in IframeEvents : Alive /\ actions(ev)

EvIframeBad == \E ev \in IframeBadEvents : Alive /\ actions(ev)

\* Everything but data transfer and the T1 expiries.
Control ==
    \/ EvConnect \/ EvDisconnect \/ EvT3
    \/ EvSabm \/ EvSabme \/ EvDisc \/ EvDm \/ EvUa \/ EvFrmr
    \/ EvUi \/ EvTest \/ EvXid
    \/ EvRr \/ EvRnr \/ EvRej \/ EvSrej

\* Data transfer with bounded T1 retries.
Next == Control \/ EvT1 \/ EvData \/ EvIframe \/ EvIframeBad

Spec == Init /\ [][Next]_vars

\* Link establishment and release with T1 retries up to N2, no data transfer.
NextLink == Control \/ EvT1Any

SpecLink == Init /\ [][NextLink]_vars

\* The peer acknowledges every I-frame it has received: an RR response with
\* N(R) = V(S).
EvAck == \E poll \in BOOLEAN :
    /\ Alive /\ state \in {"Connected", "TimerRecovery"}
    /\ actions([t |-> "Rr", poll |-> poll, nr |-> data.vs, command |-> FALSE])

\* Connections are set up and torn down, the application writes, the peer
\* acknowledges, the timers expire; the engine handles a pending timer or
\* received frame eventually.
NextLive ==
    \/ EvConnect \/ EvUa \/ EvSabm \/ EvSabme \/ EvDisc
    \/ EvData \/ EvAck \/ EvT1 \/ EvT3

LiveSpec ==
    /\ Init /\ [][NextLive]_vars
    /\ WF_vars(EvAck) /\ WF_vars(EvT1) /\ WF_vars(EvT3)

\* The application writes up to MaxBulk bytes in one Data event.
EvBulk == \E len \in 1..MaxBulk :
    /\ Alive /\ data.h_written + len <= MaxBulk
    /\ actions([t |-> "Data", payload |-> [i \in 1..len |-> data.h_written + i]])

\* Bulk transfer over connections set up either way: the window fills.
NextWindow ==
    \/ EvConnect \/ EvUa \/ EvSabm \/ EvSabme \/ EvDisc
    \/ EvBulk \/ EvRr

SpecWindow == Init /\ [][NextWindow]_vars

\* Bulk transfer on an accepted connection while T1 expires, as often as it
\* is running: the window fills, the link enters TimerRecovery with bytes still
\* buffered, and unanswered enquiries end in Disconnected.
NextRecovery == EvSabm \/ EvBulk \/ EvRr \/ EvT1Any

SpecRecovery == Init /\ [][NextRecovery]_vars

\* Link establishment and release where a running T1 eventually expires.
LiveLink == Init /\ [][NextLink]_vars /\ WF_vars(EvT1Any)

\* An accepted connection on which the peer sends I-frames, the application
\* writes, and a running timer eventually expires.
NextAck == EvSabm \/ EvData \/ EvIframe \/ EvT1Any \/ EvT3

LiveAck ==
    /\ Init /\ [][NextAck]_vars
    /\ WF_vars(EvT1Any) /\ WF_vars(EvT3)

\* in_range applied to every V(A) and V(S) below the modulus and to N(R) =
\* V(A), V(S) and V(S) + 1.
InitRange ==
    /\ InitEngine /\ client = Unobserved /\ link = Unobserved
    /\ \E modulus \in {8, 128} : \E va, vs \in 0..(modulus - 1) :
          \E nr \in {va, vs, (vs + 1) % modulus} :
             probe = [va |-> va, nr |-> nr, vs |-> vs, modulus |-> modulus,
                      done |-> FALSE, result |-> FALSE]

ApplyInRange ==
    /\ ~probe.done
    /\ probe' = [probe EXCEPT !.done = TRUE,
                              !.result = in_range(probe.va, probe.nr, probe.vs,
                                                  probe.modulus)]
    /\ UNCHANGED <<state, data, h_sabm, client, link>>

SpecRange == InitRange /\ [][ApplyInRange]_vars

\* The N(R) in_range is applied to for a window V(A)..V(S): every value below
\* the modulus for modulus 8; for modulus 128 the values up to MaxOffset away
\* from either end of the window, inside and outside it.
NrSweep(va, vs, modulus) ==
    IF modulus = 8 THEN 0..7
    ELSE {(x + i + modulus) % modulus : x \in {va, vs}, i \in (0 - MaxOffset)..MaxOffset}

\* in_range applied to the N(R) of NrSweep for every V(A) and V(S) below the
\* modulus: result[nr] is what it returns, steps[nr] the number of times its
\* loop went round.
InitSweep ==
    /\ InitEngine /\ client = Unobserved /\ link = Unobserved
    /\ \E modulus \in {8, 128} : \E va, vs \in 0..(modulus - 1) :
          probe = [va |-> va, vs |-> vs, modulus |-> modulus,
                   done |-> FALSE, result |-> <<>>, steps |-> <<>>]

ApplySweep ==
    /\ ~probe.done
    /\ probe' = [probe EXCEPT
                   !.done = TRUE,
                   !.result = [nr \in NrSweep(probe.va, probe.vs, probe.modulus) |->
                                 in_range(probe.va, nr, probe.vs, probe.modulus)],
                   !.steps = [nr \in NrSweep(probe.va, probe.vs, probe.modulus) |->
                                 in_range_steps(probe.va, nr, probe.vs, probe.modulus)]]
    /\ UNCHANGED <<state, data, h_sabm, client, link>>

SpecSweep == InitSweep /\ [][ApplySweep]_vars

\* ------------------------------------------------------------ the Client
\* Client::internal_new.  Besides the fields eof, incoming and incoming_frames,
\* `api` is the call the application is in ("new" before connect(), "accept",
\* "connect", "read", "idle" between calls, "failed" after connect() returned
\* an error) and `pc` where that call stands: about to call wait_event
\* ("call") or inside its select! ("select").  h_ret is what the last read()
\* returned: "None", "Bytes" or "EOF".
Client_new(api) ==
    [eof |-> FALSE, incoming |-> <<>>, incoming_frames |-> <<>>,
     api |-> api, pc |-> IF api = "new" THEN None ELSE "call", h_ret |-> "None"]

\* The engine as one value, to thread it through a call.
Snap == [state |-> state, d |-> data, c |-> client]

\* Client::actions, the loop over the ReturnEvents: EOF sets eof, delivered
\* data is appended to incoming.  Writes to the port succeed.
RECURSIVE actions_data(_, _)
actions_data(c, ret) ==
    IF ret = <<>> THEN c
    ELSE actions_data(
           IF Head(ret).kind # "Data" THEN c
           ELSE IF Head(ret).res = "EOF" THEN [c EXCEPT !.eof = TRUE]
           ELSE [c EXCEPT !.incoming = @ \o Head(ret).payload],
           Tail(ret))

\* Client::actions on the engine s, h being what handle returned.
actions_snap(s, h) ==
    [state |-> IF h.state = None THEN s.state ELSE h.state,
     d |-> h.d,
     c |-> actions_data(s.c, h.ret)]

\* wait_event, the loop that pops and handles every queued frame.  A panic
\* ends the task.
RECURSIVE wait_event_frames(_)
wait_event_frames(s) ==
    IF s.c.incoming_frames = <<>> \/ s.d.h_panic THEN s
    ELSE wait_event_frames(
           actions_snap([s EXCEPT !.c.incoming_frames = Tail(@)],
                        handle(s.state, s.d, Head(s.c.incoming_frames))))

\* What the caller of wait_event does when it returns: read() returns EOF or
\* the buffered bytes, accept() and connect() return once connected, connect()
\* fails once disconnected; otherwise the caller calls wait_event again.
wait_event_caller(s) ==
    CASE s.d.h_panic -> s
      [] s.c.api = "read" ->
           IF s.c.incoming = <<>> /\ s.c.eof
             THEN [s EXCEPT !.c.api = "idle", !.c.pc = None, !.c.h_ret = "EOF"]
           ELSE IF s.c.incoming # <<>>
             THEN [s EXCEPT !.c.api = "idle", !.c.pc = None, !.c.h_ret = "Bytes",
                            !.c.incoming = <<>>]
           ELSE [s EXCEPT !.c.pc = "call"]
      [] s.c.api = "accept" ->
           IF s.state \in {"Connected", "TimerRecovery"}
             THEN [s EXCEPT !.c.api = "idle", !.c.pc = None]
           ELSE [s EXCEPT !.c.pc = "call"]
      [] s.c.api = "connect" ->
           IF s.state \in {"Connected", "TimerRecovery"}
             THEN [s EXCEPT !.c.api = "idle", !.c.pc = None]
           ELSE IF s.state = "Disconnected"
             THEN [s EXCEPT !.c.api = "failed", !.c.pc = None]
           ELSE [s EXCEPT !.c.pc = "call"]

\* wait_event after its frame loop left the engine as w: it returns when
\* bytes are buffered or the state name changed, else it waits in select!.
wait_event_head(w) ==
    IF w.c.incoming # <<>> \/ w.state # state THEN wait_event_caller(w)
    ELSE IF w.d.h_panic THEN w
    ELSE [w EXCEPT !.c.pc = "select"]

\* The engine becomes s.  h_sabm is not kept up to date by these steps.
Install(s) ==
    /\ state' = s.state /\ data' = s.d /\ client' = s.c
    /\ UNCHANGED <<h_sabm, probe, link>>

\* Frames the peer sends: SABM, UA, DISC and I-frames numbered from 0.
PortFrames ==
    {[t |-> "Sabm", src |-> src, poll |-> TRUE] : src \in Peers}
      \cup {[t |-> "Ua", poll |-> TRUE], [t |-> "Disc", poll |-> TRUE]}
      \cup {[t |-> "Iframe", command |-> TRUE,
             iframe |-> Iframe(ns, 0, FALSE, RecvPayload(ns), 0)] : ns \in 0..MaxRecv}

\* What one port.read() adds to incoming_frames: up to MaxFrames frames.
PortReads == UNION {[1..n -> PortFrames] : n \in 0..MaxFrames}

\* ConnectionBuilder::accept or ::connect has built the Client; accept() is
\* about to call wait_event for the first time.
InitRead ==
    /\ InitEngine
    /\ client = Client_new(IF data.able_to_establish THEN "accept" ELSE "new")
    /\ probe = Unobserved /\ link = Unobserved

\* Client::connect: feed Connect, then wait for events.
ApiConnect == \E ev \in ConnectEvents :
    /\ Alive /\ client.api = "new"
    /\ Install([actions_snap(Snap, handle(state, data, ev)) EXCEPT
                   !.c.api = "connect", !.c.pc = "call"])

\* The application calls read().
ApiRead ==
    /\ Alive /\ client.api = "idle"
    /\ Install([Snap EXCEPT !.c.api = "read", !.c.pc = "call"])

\* wait_event from its entry to its return or to select!.
WaitEvent ==
    /\ Alive /\ client.pc = "call"
    /\ Install(wait_event_head(wait_event_frames(Snap)))

\* select!: T1 is due.
SelT1 ==
    /\ Alive /\ client.pc = "select" /\ data.t1.running
    /\ Install(wait_event_caller(
                  actions_snap(Snap, handle(state, Expire("t1"), [t |-> "T1"]))))

\* select!: T3 is due.
SelT3 ==
    /\ Alive /\ client.pc = "select" /\ data.t3.running
    /\ Install(wait_event_caller(
                  actions_snap(Snap, handle(state, Expire("t3"), [t |-> "T3"]))))

\* select!: the port has bytes; extract_packets queues the frames in them.
SelPort == \E frames \in PortReads :
    /\ Alive /\ client.pc = "select"
    /\ Install(wait_event_caller([Snap EXCEPT !.c.incoming_frames = @ \o frames]))

NextRead == ApiConnect \/ ApiRead \/ WaitEvent \/ SelT1 \/ SelT3 \/ SelPort

\* The application connects or accepts and then reads; the engine runs only
\* inside these calls.
SpecRead == InitRead /\ [][NextRead]_vars

\* ------------------------------------------------------------ the frame codec
\* Packet::parse and Packet::serialize (lib.rs) on byte sequences, a byte being
\* 0..255.  An Addr is [t, rbit_ext, highbit, lowbit, rbit_dama] with the
\* string t kept as [call |-> character codes, ssid |-> number]; a parsed
\* Packet holds such Addrs and a flat packet_type record.  A result is
\* [r |-> "Ok", v |-> value], [r |-> "Err"] or [r |-> "Panic"].
Bit(b, m) == (b \div m) % 2 = 1

\* Addr::parse with Addr::new: the call is trimmed and upper-cased and has to
\* match ^[A-Z0-9]{3,6}(-ssid)?$.
Addr_parse(bytes) ==
    LET ch == [i \in 1..6 |-> bytes[i] \div 2]
        n == IF \A i \in 1..6 : ch[i] \in {9, 10, 11, 12, 13, 32} THEN 0
             ELSE CHOOSE i \in 1..6 :
                    /\ ch[i] \notin {9, 10, 11, 12, 13, 32}
                    /\ \A j \in (i + 1)..6 : ch[j] \in {9, 10, 11, 12, 13, 32}
        call == [i \in 1..n |-> IF ch[i] \in 97..122 THEN ch[i] - 32 ELSE ch[i]]
    IN IF n < 3 \/ \E i \in 1..n : call[i] \notin (48..57) \cup (65..90)
       THEN [r |-> "Err"]
       ELSE [r |-> "Ok",
             v |-> [t |-> [call |-> call, ssid |-> (bytes[7] \div 2) % 16],
                    lowbit |-> Bit(bytes[7], 1), highbit |-> Bit(bytes[7], 128),
                    rbit_ext |-> ~Bit(bytes[7], 64),
                    rbit_dama |-> ~Bit(bytes[7], 32)]]

Addr_serialize(a, lowbit, highbit, rbit_ext, rbit_dama) ==
    [i \in 1..7 |->
        IF i < 7 THEN (IF i <= Len(a.t.call) THEN a.t.call[i] ELSE 32) * 2
        ELSE a.t.ssid * 2 + (IF rbit_ext THEN 0 ELSE 64) + (IF rbit_dama THEN 0 ELSE 32)
               + (IF lowbit THEN 1 ELSE 0) + (IF highbit THEN 128 ELSE 0)]

\* The control bytes and payload Packet::serialize writes for a packet type.
PacketType_serialize(pt, e) ==
    LET pf == IF pt.poll THEN 16 ELSE 0
        second == <<((pt.nr * 2) % 256) + (IF pt.poll THEN 1 ELSE 0)>>
    IN CASE pt.t = "Sabm" -> <<(IF e THEN 111 ELSE 47) + pf>>
         [] pt.t = "Sabme" -> <<111 + pf>>
         [] pt.t = "Ua" -> <<99 + pf>>
         [] pt.t = "Disc" -> <<67 + pf>>
         [] pt.t = "Dm" -> <<15 + pf>>
         [] pt.t = "Frmr" -> <<135 + pf>>
         [] pt.t = "Ui" -> <<3 + pf>>
         [] pt.t = "Xid" -> <<175 + pf>>
         [] pt.t = "Test" -> <<227 + pf>> \o pt.payload
         [] pt.t = "Rr" -> IF e THEN <<1>> \o second ELSE <<1 + pf + (pt.nr % 8) * 32>>
         [] pt.t = "Rnr" -> IF e THEN <<5>> \o second ELSE <<5 + pf + (pt.nr % 8) * 32>>
         [] pt.t = "Rej" -> IF e THEN <<9>> \o second ELSE <<9 + pf>>
         [] pt.t = "Srej" -> IF e THEN <<13>> \o second ELSE <<13 + pf>>
         [] pt.t = "Iframe" ->
              (IF e THEN <<(pt.ns * 2) % 256>> \o second
               ELSE <<pf + (pt.nr % 8) * 32 + (pt.ns % 8) * 2>>)
                \o <<pt.pid>> \o pt.payload

\* Packet::serialize; the assert_ne! on the two command/response bits panics.
Packet_serialize(p, e) ==
    IF p.command_response = p.command_response_la THEN [r |-> "Panic"]
    ELSE [r |-> "Ok",
          v |-> Addr_serialize(p.dst, FALSE, p.command_response, p.rr_dist1, FALSE)
                  \o Addr_serialize(p.src, p.digipeater = <<>>, p.command_response_la,
                                    e, FALSE)
                  \o PacketType_serialize(p.packet_type, e)]

\* The packet_type Packet::parse builds from the first control byte, with
\* `rest` the bytes after the control field: "Panic" for the slice bytes[1..]
\* of an I-frame without PID byte and for the todo! of an unknown U frame.
PacketType_parse(control1, poll, nr, ns, rest) ==
    LET u == control1 - (IF Bit(control1, 16) THEN 16 ELSE 0)
        st == [r |-> "Ok", v |-> [t |-> CASE control1 % 16 = 1 -> "Rr"
                                          [] control1 % 16 = 5 -> "Rnr"
                                          [] control1 % 16 = 9 -> "Rej"
                                          [] OTHER -> "Srej",
                                  nr |-> nr, poll |-> poll]]
        ut == [r |-> "Ok", v |-> [t |-> CASE u = 111 -> "Sabme" [] u = 47 -> "Sabm"
                                          [] u = 99 -> "Ua" [] u = 67 -> "Disc"
                                          [] u = 15 -> "Dm" [] u = 135 -> "Frmr"
                                          [] OTHER -> "Xid",
                                  poll |-> poll]]
    IN CASE control1 % 2 = 0 ->
              IF rest = <<>> THEN [r |-> "Panic"]
              ELSE [r |-> "Ok", v |-> [t |-> "Iframe", ns |-> ns, nr |-> nr, poll |-> poll,
                                       pid |-> 240, payload |-> Tail(rest)]]
         [] control1 % 4 = 1 -> st
         [] u = 3 -> [r |-> "Ok", v |-> [t |-> "Ui", poll |-> poll, payload |-> rest]]
         [] u = 227 -> [r |-> "Ok", v |-> [t |-> "Test", poll |-> poll, payload |-> rest]]
         [] u \in {111, 47, 99, 67, 15, 135, 175} -> ut
         [] OTHER -> [r |-> "Panic"]

\* Packet::parse from the addresses on: one control byte in mod-8 frames and
\* in U frames, two in mod-128 frames.
Packet_parse_addrs(bytes, dst, src) ==
    LET e == src.rbit_ext
        control1 == bytes[15]
        one == ~e \/ control1 % 4 = 3
        control2 == IF Len(bytes) >= 16 THEN bytes[16] ELSE 0
        pt == IF one
              THEN PacketType_parse(control1, Bit(control1, 16), (control1 \div 32) % 8,
                                    (control1 \div 2) % 8, SubSeq(bytes, 16, Len(bytes)))
              ELSE PacketType_parse(control1, Bit(control2, 1), (control2 \div 2) % 128,
                                    (control1 \div 2) % 128, SubSeq(bytes, 17, Len(bytes)))
    IN IF ~one /\ Len(bytes) < 16 THEN [r |-> "Err"]
       ELSE IF pt.r # "Ok" THEN pt
       ELSE [r |-> "Ok",
             v |-> [src |-> src, dst |-> dst,
                    command_response |-> dst.highbit,
                    command_response_la |-> src.highbit,
                    rr_dist1 |-> dst.rbit_ext, rr_extseq |-> e,
                    digipeater |-> <<>>, packet_type |-> pt.v]]

\* Packet::parse (USE_FCS is false: no FCS bytes, at least 15 bytes).
Packet_parse(bytes) ==
    IF Len(bytes) < 15 THEN [r |-> "Err"]
    ELSE IF Addr_parse(SubSeq(bytes, 1, 7)).r # "Ok" THEN [r |-> "Err"]
    ELSE IF Addr_parse(SubSeq(bytes, 8, 14)).r # "Ok" THEN [r |-> "Err"]
    ELSE Packet_parse_addrs(bytes, Addr_parse(SubSeq(bytes, 1, 7)).v,
                            Addr_parse(SubSeq(bytes, 8, 14)).v)

\* parse, serialize with ext = rr_extseq, parse again: "Err" or "Panic" of the
\* step that failed, else whether the second parse equals the first.
round_trip_again(first, bytes) ==
    IF bytes.r # "Ok" THEN "SerializePanic"
    ELSE IF Packet_parse(bytes.v).r # "Ok" THEN "Reparse" \o Packet_parse(bytes.v).r
    ELSE IF Packet_parse(bytes.v).v = first THEN "Equal" ELSE "Differs"

round_trip(first) ==
    IF first.r # "Ok" THEN first.r
    ELSE round_trip_again(first.v, Packet_serialize(first.v, first.v.rr_extseq))

\* The bytes given to Packet::parse: the callsign "M0THC" or the too short
\* "M0" as destination, "M0THC" as source, SSID 2 and 1, every combination of
\* the address bits that parse reads, every first control byte, and up to
\* MaxTail bytes after it; and a frame cut short after the addresses.
ParseInputs ==
    LET good == <<154, 96, 168, 144, 134, 64>>
        bad == <<154, 96, 64, 64, 64, 64>>
        tail == [i \in 1..MaxTail |-> IF i = 1 THEN 35 ELSE 64 + i]
        dsts == {call \o <<4 + 32 + 64 * x + 128 * h + l>> :
                    call \in {good, bad}, x \in {0, 1}, h \in {0, 1}, l \in {0, 1}}
        srcs == {good \o <<2 + 1 + 32 * dm + 64 * x + 128 * h>> :
                    dm \in {0, 1}, x \in {0, 1}, h \in {0, 1}}
    IN {d \o s : d \in dsts, s \in srcs}
         \cup {d \o s \o <<c>> \o SubSeq(tail, 1, n) :
                  d \in dsts, s \in srcs, c \in 0..255, n \in 0..MaxTail}

InitCodec ==
    /\ InitEngine /\ client = Unobserved /\ link = Unobserved
    /\ \E bytes \in ParseInputs : probe = [bytes |-> bytes, done |-> FALSE, result |-> "None"]

ApplyRoundTrip ==
    /\ ~probe.done
    /\ probe' = [probe EXCEPT !.done = TRUE, !.result = round_trip(Packet_parse(probe.bytes))]
    /\ UNCHANGED <<state, data, h_sabm, client, link>>

SpecCodec == InitCodec /\ [][ApplyRoundTrip]_vars

\* ------------------------------------------------------------ two stations
\* The near station is (state, data); the far one is link.state, link.d.
\* link.to_far and link.to_near are the frames in flight, oldest first.
\* History: link.h_del[side] is every byte delivered at that side, in order;
\* link.h_reset says that a station that was in Connected or TimerRecovery has
\* left these states or has had its link reset by a SABM/SABME; link.h_lost
\* that the channel has lost an I-frame.
Sides == {"near", "far"}

Station(side) ==
    IF side = "near" THEN [state |-> state, d |-> data]
    ELSE [state |-> link.state, d |-> link.d]

\* Client::actions_packet: the Event for a received Packet.
actions_packet(p) ==
    CASE p.packet_type.t = "Sabm" ->
           [t |-> "Sabm", src |-> p.src, poll |-> p.packet_type.poll]
      [] p.packet_type.t = "Rr" ->
           [t |-> "Rr", poll |-> p.packet_type.poll, nr |-> p.packet_type.nr,
            command |-> p.command_response]
      [] p.packet_type.t = "Iframe" ->
           [t |-> "Iframe", command |-> p.command_response,
            iframe |-> p.packet_type.iframe]
      [] p.packet_type.t \in {"Rnr", "Rej"} ->
           [t |-> p.packet_type.t, poll |-> p.packet_type.poll, nr |-> p.packet_type.nr]
      [] OTHER -> [t |-> p.packet_type.t, poll |-> p.packet_type.poll]

\* The bytes of the Data(Res::Some) events in ret, in order.
RECURSIVE delivered(_)
delivered(ret) ==
    IF ret = <<>> THEN <<>>
    ELSE (IF Head(ret).kind = "Data" /\ Head(ret).res = "Some"
          THEN Head(ret).payload ELSE <<>>) \o delivered(Tail(ret))

\* The frames in flight after `out` was sent: what exceeds MaxInFlight is lost.
in_flight(q, out) == SubSeq(q \o out, 1, Min(Len(q \o out), MaxInFlight))

\* Station `side`, being s, has handled ev with result h; l is the link
\* before (with a received frame already taken off).  The frames go to the
\* other station, delivered bytes to the application.
PairInstall(side, s, ev, h, l) ==
    LET st == IF h.state = None THEN s.state ELSE h.state
        was == s.state \in {"Connected", "TimerRecovery"}
        reset == was /\ (st \notin {"Connected", "TimerRecovery"}
                            \/ ev.t \in {"Sabm", "Sabme"})
        out == SelectSeq(h.ret, IsPacket)
        l1 == [l EXCEPT !.h_del[side] = @ \o delivered(h.ret),
                        !.h_reset = @ \/ reset]
    IN /\ state' = IF side = "near" THEN st ELSE state
       /\ data' = IF side = "near" THEN h.d ELSE data
       /\ link' = IF side = "near"
                  THEN [l1 EXCEPT !.to_far = in_flight(@, out)]
                  ELSE [l1 EXCEPT !.state = st, !.d = h.d,
                                  !.to_near = in_flight(@, out)]
       /\ UNCHANGED <<h_sabm, client, probe>>

\* The near station was built for connect(), the far one for accept().
InitPair ==
    /\ state = "Disconnected" /\ data = Data_new(Me, FALSE) /\ h_sabm = 0
    /\ client = Unobserved /\ probe = Unobserved
    /\ link = [state |-> "Disconnected", d |-> Data_new("M0THC-2", TRUE),
               to_far |-> <<>>, to_near |-> <<>>,
               h_del |-> [side \in Sides |-> <<>>], h_reset |-> FALSE,
               h_lost |-> FALSE]

\* Both stations run and no reset has happened.
PairAlive == ~link.h_reset /\ ~data.h_panic /\ ~link.d.h_panic

PairEvent(side, ev) ==
    PairInstall(side, Station(side), ev,
                handle(Station(side).state, Station(side).d, ev), link)

PairConnect ==
    /\ PairAlive /\ state = "Disconnected" /\ data.peer = None
    /\ PairEvent("near", [t |-> "Connect", addr |-> "M0THC-2", ext |-> FALSE])

\* The application of a connected station writes; the two applications write
\* MaxData bytes between them.
PairData == \E side \in Sides : \E len \in 1..MaxChunk :
    /\ PairAlive /\ Station(side).state \in {"Connected", "TimerRecovery"}
    /\ data.h_written + link.d.h_written + len <= MaxData
    /\ PairEvent(side, [t |-> "Data",
                        payload |-> [i \in 1..len |-> Station(side).d.h_written + i]])

\* A station receives the oldest frame in flight to it.
PairRecv == \E side \in Sides :
    LET q == IF side = "near" THEN link.to_near ELSE link.to_far
    IN /\ PairAlive /\ q # <<>>
       /\ PairInstall(side, Station(side), actions_packet(Head(q)),
                      handle(Station(side).state, Station(side).d, actions_packet(Head(q))),
                      IF side = "near" THEN [link EXCEPT !.to_near = Tail(@)]
                      ELSE [link EXCEPT !.to_far = Tail(@)])

\* The channel loses the oldest frame in flight.
PairLose ==
    /\ PairAlive
    /\ \/ /\ link.to_near # <<>>
          /\ link' = [link EXCEPT !.to_near = Tail(@),
                                  !.h_lost = @ \/ IsIframePacket(Head(link.to_near))]
       \/ /\ link.to_far # <<>>
          /\ link' = [link EXCEPT !.to_far = Tail(@),
                                  !.h_lost = @ \/ IsIframePacket(Head(link.to_far))]
    /\ UNCHANGED <<state, data, h_sabm, client, probe>>

PairT1 == \E side \in Sides :
    /\ PairAlive /\ Station(side).d.t1.running /\ Station(side).d.rc < MaxExpiry
    /\ PairInstall(side, Station(side), [t |-> "T1"],
                   handle(Station(side).state,
                          [Station(side).d EXCEPT !.t1.due = TRUE], [t |-> "T1"]),
                   link)

PairT3 == \E side \in Sides :
    /\ PairAlive /\ Station(side).d.t3.running
    /\ PairInstall(side, Station(side), [t |-> "T3"],
                   handle(Station(side).state,
                          [Station(side).d EXCEPT !.t3.due = TRUE], [t |-> "T3"]),
                   link)

NextPair == PairConnect \/ PairData \/ PairRecv \/ PairLose \/ PairT1 \/ PairT3

\* Two stations over a channel that keeps the order of the frames and may lose
\* any of them, observed until one of them resets the link or leaves it.
SpecPair == InitPair /\ [][NextPair]_vars

\* ------------------------------------------------------------ properties
Established == state \in {"Connected", "TimerRecovery"}

TimerEvents ==
    {[t |-> x] : x \in (IF data.t1.running THEN {"T1"} ELSE {})
                         \cup (IF data.t3.running THEN {"T3"} ELSE {})}

PlainEvents ==
    {[t |-> "Disconnect"], [t |-> "Frmr"]}
      \cup {[t |-> x, command |-> c] : x \in {"Test", "Xid"}, c \in BOOLEAN}
      \cup {[t |-> x, poll |-> p, nr |-> data.va] : x \in {"Rnr", "Rej", "Srej"}, p \in BOOLEAN}

\* Every event the engine can feed in the current state.
AllEvents ==
    ConnectEvents \cup DataEvents \cup TimerEvents \cup PlainEvents
      \cup SabmEvents \cup SabmeEvents \cup DiscEvents \cup DmEvents \cup UaEvents
      \cup UiEvents \cup RrEvents \cup IframeEvents \cup IframeBadEvents

IsDeliver(e) == e.kind = "Data" /\ e.res = "Some"

\* C1: in Connected and TimerRecovery, an event produces a Deliver only if it
\* is an I-frame command whose N(S) equals V(R); it then produces exactly one,
\* of the frame's payload, and V(R) advances by one modulo the modulus.  An
\* I-frame whose N(S) differs from V(R) produces no Deliver and leaves V(R).
C1_DeliverOnlyInSequence ==
    (Established /\ ~data.h_panic) =>
      \A ev \in AllEvents :
        LET h == Handled(ev)
            dl == SelectSeq(h.ret, IsDeliver)
        IN /\ (dl # <<>>) =>
                /\ ev.t = "Iframe" /\ ev.command /\ ev.iframe.ns = data.vr
                /\ Len(dl) = 1 /\ dl[1].payload = ev.iframe.payload
                /\ h.d.vr = (data.vr + 1) % data.modulus
           /\ (ev.t = "Iframe" /\ ev.iframe.ns # data.vr) =>
                (dl = <<>> /\ h.d.vr = data.vr)

\* A state where one I-frame is delivered and another, out of
\* sequence, is not.
C1_Witness ==
    /\ Established /\ ~data.h_panic
    /\ \E ev \in IframeEvents : SelectSeq(Handled(ev).ret, IsDeliver) # <<>>
    /\ \E ev \in IframeEvents :
          ev.iframe.ns # data.vr /\ Handled(ev).d.vr = data.vr /\ Handled(ev).state = None

\* C2: the payload bytes of the I-frames flush has emitted, in emission order,
\* are the first bytes of the stream passed to Data events (and obuf holds the
\* rest); their N(S) are consecutive modulo the modulus within a connection,
\* N(S) being V(S) at emission; and every emitted I-frame holds at most MTU
\* bytes.
C2_FifoFrames ==
    /\ data.h_sent \o data.obuf = [i \in 1..data.h_written |-> i]
    /\ \A i \in 1..(Len(data.h_ns) - 1) :
          data.h_ns[i + 1] = (data.h_ns[i] + 1) % data.modulus
    /\ (data.h_ns # <<>>) => (data.vs = (data.h_ns[Len(data.h_ns)] + 1) % data.modulus)
    /\ ~data.h_panic =>
         \A ev \in DataEvents \cup RrEvents \cup IframeEvents :
            LET out == SelectSeq(Handled(ev).ret, IsIframePacket)
            IN \A i \in 1..Len(out) :
                  /\ Len(out[i].packet_type.iframe.payload) <= data.mtu_out
                  /\ out[i].packet_type.iframe.extra = 0

\* A write longer than MTU has been split into two I-frames.
C2_Witness ==
    /\ Established /\ Len(data.h_ns) = 2 /\ data.h_ns[2] = 1
    /\ data.h_written > data.mtu_out /\ Len(data.h_sent) > data.mtu_out

\* C3: on a connection that stays established and whose peer acknowledges
\* every I-frame, every byte accepted by a Data event is eventually emitted:
\* obuf becomes empty and the emitted payloads are the written bytes in order.
C3_EventuallyEmitted ==
    (Established /\ data.obuf # <<>>)
        ~> (~Established \/ (data.obuf = <<>> /\ data.h_sent = [i \in 1..data.h_written |-> i]))

\* C4: in every reachable state the number of entries in iframe_resend_queue
\* equals (V(S) - V(A)) mod modulus.
C4_QueueLength ==
    Len(data.iframe_resend_queue) = (data.vs + data.modulus - data.va) % data.modulus

Outstanding == (data.vs + data.modulus - data.va) % data.modulus

\* C5: on an established connection the number of I-frames sent and not yet
\* acknowledged, and the length of iframe_resend_queue, never exceed 4 on a
\* mod-8 and 32 on a mod-128 connection.
C5_WindowK ==
    Established =>
        LET K == IF data.modulus = 8 THEN 4 ELSE 32
        IN Outstanding <= K /\ Len(data.iframe_resend_queue) <= K

\* C6: T1 and T3 are never both running.
C6_TimersExclusive == ~(data.t1.running /\ data.t3.running)

\* T1 has been started by a flush that stopped T3, and later T3 by an
\* acknowledgement that stopped T1.
C6_Witness ==
    /\ state = "Connected" /\ data.t3.running /\ ~data.t1.running
    /\ data.h_sent # <<>> /\ data.vs = data.va /\ data.vs > 0

\* C7: in Connected, V(S) = V(A) implies T1 stopped and T3 running, and
\* V(S) # V(A) implies T1 running and T3 stopped.
C7_ConnectedTimers ==
    (state = "Connected") =>
        /\ (data.vs = data.va) => (~data.t1.running /\ data.t3.running)
        /\ (data.vs # data.va) => (data.t1.running /\ ~data.t3.running)

\* Frames are outstanding after an acknowledgement of earlier ones.
C7_Witness ==
    /\ state = "Connected" /\ data.vs # data.va /\ data.va > 0
    /\ data.t1.running /\ ~data.t3.running

\* The frame handle builds for SendSabm { pf: true }.
SabmFrame(peer) ==
    [kind |-> "Packet", src |-> Me, dst |-> peer,
     command_response |-> TRUE, command_response_la |-> FALSE,
     digipeater |-> <<>>, rr_dist1 |-> FALSE, rr_extseq |-> FALSE,
     packet_type |-> [t |-> "Sabm", poll |-> TRUE]]

\* C8: after a Connect in Disconnected that the peer never answers, the Connect
\* and every T1 expiry but the last emit exactly one SABM (P=1, command,
\* src=me, dst=peer); 10 SABMs are emitted in total; the T1 expiry after the
\* 10th emits no SABM, reports the timeout error G and enters Disconnected.
C8_ConnectTimeout ==
    /\ (state = "Disconnected" /\ ~data.h_panic) =>
          \A ev \in ConnectEvents :
             /\ Handled(ev).ret = <<SabmFrame(ev.addr)>>
             /\ Handled(ev).state = "AwaitingConnection"
    /\ (h_sabm > 0 /\ state = "AwaitingConnection") =>
          /\ h_sabm <= DEFAULT_N2 /\ h_sabm = data.rc /\ data.t1.running
          /\ LET h == Handled([t |-> "T1"])
             IN IF h_sabm < DEFAULT_N2
                THEN h.ret = <<SabmFrame(data.peer)>> /\ h.state = None
                ELSE h.ret = <<[kind |-> "DlError", code |-> "G"]>>
                     /\ h.state = "Disconnected"
    /\ (h_sabm > 0 /\ state # "AwaitingConnection") =>
          (state = "Disconnected" /\ h_sabm = DEFAULT_N2)

\* The 10th T1 expiry has happened: 10 SABMs were sent and the link is down.
C8_Witness == state = "Disconnected" /\ h_sabm = DEFAULT_N2 /\ data.rc = DEFAULT_N2

\* C9: in Disconnected with able_to_establish set, a SABM (SABME) with poll
\* bit p from src is answered with exactly one frame, a UA response with F=p,
\* src=me, dst=src; the state becomes Connected with peer=src,
\* V(S)=V(A)=V(R)=0, RC=0, T3 running, T1 stopped, modulus 8 (128).
C9_IncomingConnection ==
    (state = "Disconnected" /\ data.able_to_establish /\ ~data.h_panic) =>
       \A ev \in SabmEvents \cup SabmeEvents :
          LET h == Handled(ev)
          IN /\ h.ret = <<[kind |-> "Packet", src |-> Me, dst |-> ev.src,
                           command_response |-> FALSE, command_response_la |-> TRUE,
                           digipeater |-> <<>>, rr_dist1 |-> FALSE, rr_extseq |-> FALSE,
                           packet_type |-> [t |-> "Ua", poll |-> ev.poll]]>>
             /\ h.state = "Connected"
             /\ h.d.peer = ev.src
             /\ h.d.vs = 0 /\ h.d.va = 0 /\ h.d.vr = 0 /\ h.d.rc = 0
             /\ h.d.t3.running /\ ~h.d.t1.running
             /\ h.d.modulus = (IF ev.t = "Sabm" THEN 8 ELSE 128)

\* A SABME is accepted in a Disconnected state that an earlier mod-8
\* connection left behind.
C9_Witness ==
    /\ state = "Disconnected" /\ data.able_to_establish /\ ~data.h_panic
    /\ data.peer # None /\ data.modulus = 8
    /\ \E ev \in SabmeEvents :
          Handled(ev).state = "Connected" /\ Handled(ev).d.modulus = 128

\* The RR response handle builds for SendRr { pf: true, nr, command: false }.
RrFinal(nr) ==
    [kind |-> "Packet", src |-> Me, dst |-> data.peer,
     command_response |-> FALSE, command_response_la |-> TRUE,
     digipeater |-> <<>>, rr_dist1 |-> FALSE, rr_extseq |-> FALSE,
     packet_type |-> [t |-> "Rr", poll |-> TRUE, nr |-> nr]]

\* I-frame commands with in-range N(R) and N(S) = V(R).
GoodIframes ==
    {ev \in IframeEvents :
        /\ ev.iframe.ns = data.vr
        /\ in_range(data.va, ev.iframe.nr, data.vs, data.modulus)}

RejFrame(pf, nr) ==
    [kind |-> "Packet", src |-> Me, dst |-> data.peer,
     command_response |-> FALSE, command_response_la |-> TRUE,
     digipeater |-> <<>>, rr_dist1 |-> FALSE, rr_extseq |-> FALSE,
     packet_type |-> [t |-> "Rej", poll |-> pf, nr |-> nr]]

NotIframePacket(e) == ~IsIframePacket(e)

\* What an I-frame command ev does to the receive side: out of sequence, no
\* Deliver and V(R) stays; with reject_exception clear exactly one REJ
\* (N(R) = V(R), P/F = the poll bit) and reject_exception set; with
\* reject_exception set no REJ, only an RR response with F=1 when P=1; in
\* sequence, a Deliver and reject_exception cleared.
RejectRule(ev) ==
    LET h == Handled(ev)
        other == SelectSeq(h.ret, NotIframePacket)
    IN IF ev.iframe.ns # data.vr
       THEN /\ SelectSeq(h.ret, IsDeliver) = <<>>
            /\ h.d.vr = data.vr
            /\ h.d.reject_exception
            /\ IF ~data.reject_exception
               THEN other = <<RejFrame(ev.iframe.poll, data.vr)>>
               ELSE other = (IF ev.iframe.poll THEN <<RrFinal(data.vr)>> ELSE <<>>)
       ELSE /\ Len(SelectSeq(h.ret, IsDeliver)) = 1
            /\ ~h.d.reject_exception

\* C11 as stated: the rule holds for every I-frame command of acceptable
\* length received in Connected or TimerRecovery.
C11_RejectOutOfSequence ==
    (Established /\ ~data.h_panic) => \A ev \in IframeEvents : RejectRule(ev)

\* C11 amended: the rule holds for the I-frame commands whose N(R) is in range.
C11_RejectInRange ==
    (Established /\ ~data.h_panic) =>
       \A ev \in IframeEvents :
          in_range(data.va, ev.iframe.nr, data.vs, data.modulus) => RejectRule(ev)

\* reject_exception is set: an out-of-sequence frame with P=1 is answered with
\* an RR, and the in-sequence frame clears the exception.
C11_Witness ==
    /\ Established /\ ~data.h_panic /\ data.reject_exception
    /\ \E ev \in IframeEvents :
          /\ ev.iframe.ns # data.vr /\ ev.iframe.poll
          /\ Handled(ev).ret = <<RrFinal(data.vr)>>
    /\ \E ev \in GoodIframes : ~Handled(ev).d.reject_exception

\* The UA response handle builds for SendUa { pf }.
UaFrame(pf) ==
    [kind |-> "Packet", src |-> Me, dst |-> data.peer,
     command_response |-> FALSE, command_response_la |-> TRUE,
     digipeater |-> <<>>, rr_dist1 |-> FALSE, rr_extseq |-> FALSE,
     packet_type |-> [t |-> "Ua", poll |-> pf]]

EofEvent == [kind |-> "Data", res |-> "EOF"]

\* C12: in Connected or TimerRecovery a DISC with poll bit p produces exactly
\* a UA response with F=p and an EOF; afterwards the state is Disconnected,
\* iframe_resend_queue is empty and T1 and T3 are stopped.
C12_DiscReceived ==
    (Established /\ ~data.h_panic) =>
       \A ev \in DiscEvents :
          LET h == Handled(ev)
          IN /\ h.ret = <<UaFrame(ev.poll), EofEvent>>
             /\ h.state = "Disconnected"
             /\ h.d.iframe_resend_queue = <<>>
             /\ ~h.d.t1.running /\ ~h.d.t3.running

\* A DISC arrives while an I-frame is unacknowledged and T1 runs.
C12_Witness ==
    /\ Established /\ ~data.h_panic
    /\ data.iframe_resend_queue # <<>> /\ data.t1.running
    /\ \E ev \in DiscEvents :
          /\ Handled(ev).state = "Disconnected"
          /\ Handled(ev).d.iframe_resend_queue = <<>>

\* C13: in every state but Disconnected, a received DISC or DM makes
\* Disconnected the next state.
C13_DiscDmTerminate ==
    (state # "Disconnected" /\ ~data.h_panic) =>
       \A ev \in DiscEvents \cup DmEvents : Handled(ev).state = "Disconnected"

\* C14: when the T1 expiry that brings RC to N2 in TimerRecovery ends the
\* connection, the returned events hold a protocol error I, T or U and, after
\* it, an EOF for the application.
C14_CollapseEof ==
    (state = "TimerRecovery" /\ data.t1.running /\ ~data.h_panic) =>
       LET h == Handled([t |-> "T1"])
       IN (h.state = "Disconnected") =>
             \E i, j \in 1..Len(h.ret) :
                /\ i < j
                /\ h.ret[i].kind = "DlError" /\ h.ret[i].code \in {"I", "T", "U"}
                /\ h.ret[j] = EofEvent

\* C15: read() returns as soon as bytes are buffered or EOF is set: after a
\* DISC was handled, read() hands out the buffered bytes and then EOF without
\* waiting for the port or a timer, so it is never inside select! with the
\* link disconnected, EOF set and not yet returned.
C15_ReadReturnsAtEof ==
    (client.api = "read" /\ client.pc = "select" /\ state = "Disconnected")
       => ~(client.eof /\ client.h_ret # "EOF")

\* The Result of Client::actions for what handle returned: an error only if a
\* frame had to be written and the write to the port failed.
actions_result(h, port_ok) ==
    IF SelectSeq(h.ret, IsPacket) # <<>> /\ ~port_ok THEN "Err" ELSE "Ok"

\* C16: a write of at least one byte made in Disconnected, AwaitingConnection
\* or AwaitingRelease returns an error; it is never reported as successful
\* while its bytes are discarded.
C16_WriteFails ==
    (~Established /\ ~data.h_panic) =>
       \A ev \in DataEvents, port_ok \in BOOLEAN :
          (ev.payload # <<>>) =>
             \/ actions_result(Handled(ev), port_ok) = "Err"
             \/ Handled(ev).d.obuf = data.obuf \o ev.payload

IsRrOrRnr(e) == e.kind = "Packet" /\ e.packet_type.t \in {"Rr", "Rnr"}

\* C17: every RR or RNR returned for a received frame or an application call
\* is a response with F=1 and N(R) = V(R); every RR or RNR returned for a T1
\* or T3 expiry is a command with P=1 and N(R) = V(R).  So RR/RNR commands with
\* P=1 come only from timer expiries.
C17_PollAnsweredByFinal ==
    ~data.h_panic =>
       \A ev \in AllEvents :
          LET h == Handled(ev)
          IN \A i \in 1..Len(h.ret) :
                IsRrOrRnr(h.ret[i]) =>
                   /\ h.ret[i].command_response = (ev.t \in {"T1", "T3"})
                   /\ h.ret[i].packet_type.poll
                   /\ h.ret[i].packet_type.nr = h.d.vr

\* After a delivery, an RR command with P=1 is answered with an RR response
\* with F=1, and a T3 expiry sends an RR command with P=1.
C17_Witness ==
    /\ Established /\ ~data.h_panic /\ data.vr > 0 /\ data.t3.running
    /\ \E ev \in RrEvents :
          /\ ev.command /\ ev.poll
          /\ \E i \in 1..Len(Handled(ev).ret) : Handled(ev).ret[i] = RrFinal(data.vr)
    /\ \E i \in 1..Len(Handled([t |-> "T3"]).ret) :
          /\ IsRrOrRnr(Handled([t |-> "T3"]).ret[i])
          /\ Handled([t |-> "T3"]).ret[i].command_response

\* V(R) moves forward: ev is an in-sequence I-frame accepted on an established
\* connection and V(R) advances by one modulo the modulus.
VrAdvances(ev, h) ==
    /\ Established /\ ev.t = "Iframe" /\ ev.iframe.ns = data.vr
    /\ h.d.vr = (data.vr + 1) % data.modulus

\* V(R) is reset: a SABM or SABME is accepted, or the UA that answers the own
\* SABM arrives, and the connection starts with V(R) = 0.
VrResets(ev, h) ==
    /\ h.d.vr = 0 /\ h.state = "Connected"
    /\ \/ ev.t \in {"Sabm", "Sabme"} /\ state \in {"Disconnected", "Connected", "TimerRecovery"}
       \/ ev.t = "Ua" /\ state = "AwaitingConnection"

\* C18 as stated: an event changes V(R) only by advancing it by one when an
\* in-sequence I-frame is accepted.
C18_VrOnlyAdvances ==
    ~data.h_panic =>
       \A ev \in AllEvents :
          (Handled(ev).d.vr # data.vr) => VrAdvances(ev, Handled(ev))

\* C18 amended: or by resetting it to 0 when a connection is established or
\* reset.
C18_VrAdvancesOrResets ==
    ~data.h_panic =>
       \A ev \in AllEvents :
          (Handled(ev).d.vr # data.vr) =>
             (VrAdvances(ev, Handled(ev)) \/ VrResets(ev, Handled(ev)))

\* After a delivery the peer resets the link: V(R) goes from 1 back to 0; and
\* an in-sequence I-frame can advance V(R).
C18_Witness ==
    /\ Established /\ ~data.h_panic /\ data.vr = 1
    /\ \E ev \in SabmEvents : Handled(ev).d.vr = 0

\* C19 as stated: for modulus 8 and 128 and all V(A), V(S) below it,
\* in_range(V(A), V(A), V(S), mod) is true and in_range(V(A), V(S), V(S), mod)
\* is false whenever V(A) differs from V(S).
C19_InRangeEnds ==
    probe.done =>
       /\ (probe.nr = probe.va) => probe.result
       /\ (probe.nr = probe.vs /\ probe.va # probe.vs) => ~probe.result

\* C19 amended: in_range is true at both ends of the window, N(R) = V(A) and
\* N(R) = V(S), and false one past V(S) unless that is V(A) again.
C19_InRangeWindow ==
    probe.done =>
       /\ (probe.nr = probe.va) => probe.result
       /\ (probe.nr = probe.vs) => probe.result
       /\ (probe.nr = (probe.vs + 1) % probe.modulus /\ probe.nr # probe.va)
             => ~probe.result

\* N(R) = V(S) was found in range in a mod-128 window that wraps around.
C19_Witness ==
    /\ probe.done /\ probe.modulus = 128
    /\ probe.va > probe.vs /\ probe.nr = probe.vs /\ probe.result

\* C20: in every reachable state peer is Some exactly when the state is not
\* Disconnected: set on leaving Disconnected, cleared on every return to it.
C20_PeerIffLinked ==
    (data.peer # None) <=> (state # "Disconnected")

\* C21: in every reachable state the retry counter RC is within 0..N2 and N2
\* is 10: no sequence of T1/T3 expiries and received frames takes RC past N2.
C21_RcWithinN2 ==
    /\ data.n2 = DEFAULT_N2
    /\ data.rc \in 0..data.n2

\* The last DISC retry is out: RC has reached N2 with T1 running, and the next
\* expiry gives up without counting further.
C21_Witness ==
    /\ state = "AwaitingRelease" /\ data.t1.running /\ data.rc = data.n2
    /\ Handled([t |-> "T1"]).state = "Disconnected"
    /\ Handled([t |-> "T1"]).d.rc = data.n2

\* C22 as stated: whenever T1 is running, an I-frame is unacknowledged (V(S)
\* differs from V(A)) or a U-frame awaits its reply (the SABM/SABME of
\* AwaitingConnection, the DISC of AwaitingRelease).
C22_T1MeansOutstanding ==
    data.t1.running =>
       \/ data.vs # data.va
       \/ state \in {"AwaitingConnection", "AwaitingRelease"}

\* C22 amended: T1 also runs while the RR/RNR enquiry (P=1) of TimerRecovery
\* awaits its reply.
C22_T1MeansAwaitingReply ==
    data.t1.running =>
       \/ data.vs # data.va
       \/ state \in {"AwaitingConnection", "AwaitingRelease", "TimerRecovery"}

\* T3 expired on an idle link: the enquiry is out, T1 runs and nothing is
\* unacknowledged.
C22_Witness ==
    /\ state = "TimerRecovery" /\ data.t1.running /\ ~data.h_panic
    /\ data.vs = data.va /\ data.iframe_resend_queue = <<>>

\* C23: every packet handle builds from an action has exactly one of
\* command_response and command_response_la true, which is what the assert_ne
\* of Packet::serialize requires.
C23_OneCommandBit ==
    ~data.h_panic =>
       \A ev \in AllEvents :
          LET out == SelectSeq(Handled(ev).ret, IsPacket)
          IN \A i \in 1..Len(out) :
                out[i].command_response # out[i].command_response_la

\* One event is answered by a response (RR with F=1), another makes the state
\* machine send a command (the enquiry of T1).
C23_Witness ==
    /\ Established /\ ~data.h_panic /\ data.t1.running
    /\ \E ev \in RrEvents : \E i \in 1..Len(Handled(ev).ret) :
          IsPacket(Handled(ev).ret[i]) /\ ~Handled(ev).ret[i].command_response
    /\ \E i \in 1..Len(Handled([t |-> "T1"]).ret) :
          /\ IsPacket(Handled([t |-> "T1"]).ret[i])
          /\ Handled([t |-> "T1"]).ret[i].command_response

\* C24: for every byte string given to Packet::parse, parse returns an error
\* without panicking, or serializing the parsed packet with ext = rr_extseq and
\* parsing the result gives a packet equal to the first one.
C24_ParseRoundTrip ==
    probe.done => probe.result \in {"Err", "Equal"}

\* C25: with two stations over a lossy channel that keeps order, as long as
\* neither has reset or left Connected/TimerRecovery, the bytes delivered at
\* one side are a prefix of the bytes the Data events of the other side
\* accepted (the bytes 1, 2, ..): none twice, out of order or skipped.
C25_DeliveredIsPrefix ==
    ~link.h_reset =>
       /\ link.h_del["far"] = [i \in 1..Len(link.h_del["far"]) |-> i]
       /\ Len(link.h_del["far"]) <= data.h_written
       /\ link.h_del["near"] = [i \in 1..Len(link.h_del["near"]) |-> i]
       /\ Len(link.h_del["near"]) <= link.d.h_written

\* An I-frame was lost on the way, and both written bytes have been
\* delivered at the far station all the same, in two I-frames.
C25_Witness ==
    /\ ~link.h_reset /\ link.h_lost
    /\ data.h_written = 2 /\ Len(data.h_ns) = 2
    /\ link.h_del["far"] = <<1, 2>>

\* What N(R) error recovery leaves behind, h being what handle returned:
\* error J and a SABM with P=1 among the events, RC = 1, T1 running, T3
\* stopped, AwaitingConnection, nothing delivered, V(A), V(R) and the resend
\* queue as before.
NrRecovered(h) ==
    /\ \E i \in 1..Len(h.ret) : h.ret[i] = [kind |-> "DlError", code |-> "J"]
    /\ \E i \in 1..Len(h.ret) : h.ret[i] = SabmFrame(data.peer)
    /\ h.d.rc = 1 /\ h.d.t1.running /\ ~h.d.t3.running
    /\ h.state = "AwaitingConnection"
    /\ SelectSeq(h.ret, IsDeliver) = <<>>
    /\ h.d.va = data.va /\ h.d.vr = data.vr
    /\ h.d.iframe_resend_queue = data.iframe_resend_queue

\* I-frame commands longer than N1, with every N(R).
LongIframeEvents ==
    {[t |-> "Iframe", command |-> TRUE,
      iframe |-> Iframe(data.vr, nr, FALSE, <<>>, DEFAULT_MTU_IN + 1)] : nr \in NrInputs}

\* C26 as stated: in Connected and TimerRecovery every I-frame command and
\* every RR whose N(R) is outside V(A)..V(S) triggers N(R) error recovery.
C26_NrErrorRecovery ==
    (Established /\ ~data.h_panic) =>
       \A ev \in IframeEvents \cup LongIframeEvents \cup RrEvents :
          LET nr == IF ev.t = "Rr" THEN ev.nr ELSE ev.iframe.nr
          IN ~in_range(data.va, nr, data.vs, data.modulus) => NrRecovered(Handled(ev))

\* C26 amended: every RR, and every I-frame command no longer than N1, whose
\* N(R) is outside V(A)..V(S) triggers N(R) error recovery.
C26_NrErrorRecoveryInLength ==
    (Established /\ ~data.h_panic) =>
       \A ev \in IframeEvents \cup RrEvents :
          LET nr == IF ev.t = "Rr" THEN ev.nr ELSE ev.iframe.nr
          IN ~in_range(data.va, nr, data.vs, data.modulus) => NrRecovered(Handled(ev))

\* In TimerRecovery with an unacknowledged I-frame, an RR and an I-frame with
\* N(R) = V(S) + 1 both end in AwaitingConnection.
C26_Witness ==
    /\ state = "TimerRecovery" /\ ~data.h_panic
    /\ data.vs # data.va /\ data.iframe_resend_queue # <<>>
    /\ \E ev \in RrEvents :
          ev.nr = (data.vs + 1) % data.modulus /\ Handled(ev).state = "AwaitingConnection"
    /\ \E ev \in IframeEvents :
          /\ ev.iframe.nr = (data.vs + 1) % data.modulus
          /\ Handled(ev).state = "AwaitingConnection"

\* The N(S) of the I-frames among the events handle returned, in order.
SentNs(ret) ==
    LET out == SelectSeq(ret, IsIframePacket)
    IN [i \in 1..Len(out) |-> out[i].packet_type.iframe.ns]

\* What an RR response with F=1 and in-range N(R) = nr leaves behind in
\* TimerRecovery, h being what handle returned.
FinalAcked(nr, h) ==
    /\ h.d.va = nr
    /\ IF h.d.vs = h.d.va
       THEN /\ h.state = "Connected"
            /\ h.d.t3.running /\ ~h.d.t1.running /\ h.d.rc = 0
       ELSE /\ h.state = None
            /\ h.d.t1.running /\ ~h.d.t3.running
            /\ SentNs(h.ret) = [i \in 1..Len(h.d.iframe_resend_queue) |->
                                   h.d.iframe_resend_queue[i].ns]

\* C27: in TimerRecovery an RR response with F=1 and N(R) in V(A)..V(S)
\* advances V(A) to N(R); with V(S) = V(A) it starts T3, stops T1, zeroes RC
\* and returns to Connected; otherwise it stays in TimerRecovery with T1
\* running and T3 stopped, and the I-frames it emits are the resend queue in
\* N(S) order, each once.
C27_FinalRrInRecovery ==
    (state = "TimerRecovery" /\ ~data.h_panic) =>
       \A nr \in NrInputs :
          in_range(data.va, nr, data.vs, data.modulus) =>
             FinalAcked(nr, Handled([t |-> "Rr", poll |-> TRUE, nr |-> nr,
                                     command |-> FALSE]))

\* The enquiry of transmit_enquiry as handle builds it: an RR, or an RNR when
\* own_receiver_busy, command with P=1 and N(R) = V(R).
EnquiryFrame ==
    [kind |-> "Packet", src |-> Me, dst |-> data.peer,
     command_response |-> TRUE, command_response_la |-> FALSE,
     digipeater |-> <<>>, rr_dist1 |-> FALSE, rr_extseq |-> FALSE,
     packet_type |-> [t |-> IF data.own_receiver_busy THEN "Rnr" ELSE "Rr",
                      poll |-> TRUE, nr |-> data.vr]]

\* The DM with F=0 as handle builds it.
DmFrame ==
    [kind |-> "Packet", src |-> Me, dst |-> data.peer,
     command_response |-> FALSE, command_response_la |-> TRUE,
     digipeater |-> <<>>, rr_dist1 |-> FALSE, rr_extseq |-> FALSE,
     packet_type |-> [t |-> "Dm", poll |-> FALSE]]

\* What a T1 expiry that is the n-th in a row leaves behind, h being what
\* handle returned.
T1Expired(n, h) ==
    /\ h.d.rc = n
    /\ IF n < data.n2
       THEN /\ h.ret = <<EnquiryFrame>>
            /\ h.state = "TimerRecovery"
            /\ h.d.t1.running
       ELSE /\ n = data.n2
            /\ h.ret = <<[kind |-> "DlError",
                          code |-> IF data.vs # data.va THEN "I"
                                   ELSE IF data.peer_receiver_busy THEN "U" ELSE "T"],
                         DmFrame>>
            /\ h.d.iframe_resend_queue = <<>>
            /\ h.state = "Disconnected"

\* C28: TimerRecovery is entered with RC = 1 and RC stays below N2 there; a T1
\* expiry in Connected is the first of a row, one in TimerRecovery the
\* (RC+1)-th; the n-th of a row with n < N2 emits one RR or RNR command with
\* P=1 and gives TimerRecovery, the N2-th emits one error (I, U or T) and DM
\* with F=0, clears the resend queue and gives Disconnected.
C28_T1RetriesToN2 ==
    /\ (state = "TimerRecovery") => data.rc \in 1..(data.n2 - 1)
    /\ (Established /\ data.t1.running /\ ~data.h_panic) =>
          T1Expired(IF state = "Connected" THEN 1 ELSE data.rc + 1, Handled([t |-> "T1"]))

\* The tenth expiry of a row, with I-frames unacknowledged, is about to
\* happen and ends in Disconnected.
C28_Witness ==
    /\ state = "TimerRecovery" /\ data.t1.running /\ ~data.h_panic
    /\ data.rc = DEFAULT_N2 - 1
    /\ data.vs # data.va /\ data.iframe_resend_queue # <<>>
    /\ Handled([t |-> "T1"]).state = "Disconnected"

\* C29: every event after which handle installs Connected - from whichever
\* state - leaves T3 running, T1 stopped and RC = 0.
C29_EnterConnected ==
    ~data.h_panic =>
       \A ev \in AllEvents :
          LET h == Handled(ev)
          IN h.state = "Connected" =>
                h.d.t3.running /\ ~h.d.t1.running /\ h.d.rc = 0

\* C30: in Connected and TimerRecovery a received RNR sets peer_receiver_busy
\* and a received RR clears it; while it is set, neither a Data event nor an
\* RR emits an I-frame and written bytes stay in obuf.
C30_PeerBusyHoldsOutput ==
    (Established /\ ~data.h_panic) =>
       /\ \A poll \in BOOLEAN :
             Handled([t |-> "Rnr", poll |-> poll, nr |-> data.va]).d.peer_receiver_busy
       /\ \A ev \in RrEvents : ~Handled(ev).d.peer_receiver_busy
       /\ data.peer_receiver_busy =>
             \A ev \in DataEvents :
                LET h == Handled(ev)
                IN /\ SentNs(h.ret) = <<>>
                   /\ h.d.obuf = data.obuf \o ev.payload

\* C31: a T1 expiry in AwaitingConnection or AwaitingRelease that retries
\* (RC below N2 before it) leaves SRT = 2*SRT + RC*250 ms, RC being the
\* incremented retry count, so the retry durations strictly increase; a UA
\* with F=1 in AwaitingConnection, which applies select_t1_value with RC = 0,
\* leaves SRT = SRT_default.
C31_SrtBacksOff ==
    ~data.h_panic =>
       /\ (state \in {"AwaitingConnection", "AwaitingRelease"}
             /\ data.t1.running /\ data.rc < data.n2) =>
             LET h == Handled([t |-> "T1"])
             IN /\ h.d.srt = 2 * data.srt + h.d.rc * 250
                /\ h.d.srt > data.srt
       /\ (state = "AwaitingConnection") =>
             \A ev \in UaEvents :
                LET h == Handled(ev)
                IN h.state = "Connected" => h.d.srt = data.srt_default

\* C32: T3 is not running in TimerRecovery, and no event handled in
\* TimerRecovery leaves T3 running unless it returns to Connected.
C32_NoT3InRecovery ==
    /\ (state = "TimerRecovery") => ~data.t3.running
    /\ (state = "TimerRecovery" /\ ~data.h_panic) =>
          \A ev \in AllEvents :
             LET h == Handled(ev)
             IN (h.state = None /\ ~h.d.h_panic) => ~h.d.t3.running

\* The DISC with P=1 as handle builds it.
DiscFrame ==
    [kind |-> "Packet", src |-> Me, dst |-> data.peer,
     command_response |-> TRUE, command_response_la |-> FALSE,
     digipeater |-> <<>>, rr_dist1 |-> FALSE, rr_extseq |-> FALSE,
     packet_type |-> [t |-> "Disc", poll |-> TRUE]]

\* The steps of a release: a Disconnect in Connected or TimerRecovery sends
\* DISC with P=1, starts T1, stops T3 and gives AwaitingRelease; there T1 is
\* running, a UA or DM with F=1 stops T1 and gives Disconnected, a T1 expiry
\* with RC below N2 resends DISC with P=1 and increments RC, and a T1 expiry
\* with RC = N2 reports error H and gives Disconnected.
ReleaseSteps ==
    ~data.h_panic =>
       /\ Established =>
             LET h == Handled([t |-> "Disconnect"])
             IN /\ h.state = "AwaitingRelease"
                /\ \E i \in 1..Len(h.ret) : h.ret[i] = DiscFrame
                /\ h.d.t1.running /\ ~h.d.t3.running
       /\ (state = "AwaitingRelease") =>
             /\ data.t1.running
             /\ \A t \in {"Ua", "Dm"} :
                   LET h == Handled([t |-> t, poll |-> TRUE])
                   IN h.state = "Disconnected" /\ ~h.d.t1.running
             /\ LET h == Handled([t |-> "T1"])
                IN IF data.rc = data.n2
                   THEN /\ h.state = "Disconnected"
                        /\ h.ret = <<[kind |-> "DlError", code |-> "H"]>>
                   ELSE /\ h.state = None
                        /\ h.ret = <<DiscFrame>>
                        /\ h.d.rc = data.rc + 1
                        /\ h.d.t1.running

C34_DisconnectedAnswersDm ==
    (state = "Disconnected" /\ ~data.h_panic) =>
       \A ev \in DiscEvents \cup
                 (IF data.able_to_establish THEN {} ELSE SabmEvents \cup SabmeEvents) :
          LET h == Handled(ev)
          IN /\ ~h.d.h_panic
             /\ h.state = None
             /\ Len(h.ret) = 1
             /\ h.ret[1].kind = "Packet"
             /\ h.ret[1].packet_type = [t |-> "Dm", poll |-> ev.poll]

\* C35: for modulus 8 and 128, all a and b below it and the n it was applied
\* to, in_range(a, n, b, m) returns after at most (b - a) mod m rounds of its loop, and returns true
\* exactly when (n - a) mod m <= (b - a) mod m; so N(R) = V(A) and N(R) = V(S)
\* are accepted.
C35_InRangeIsInterval ==
    probe.done =>
       LET m == probe.modulus
           width == (probe.vs - probe.va + m) % m
       IN /\ \A n \in DOMAIN probe.result :
                /\ probe.steps[n] \in 0..width
                /\ probe.result[n] <=> ((n - probe.va + m) % m <= width)
          /\ probe.result[probe.va] /\ probe.result[probe.vs]

\* A mod-128 window that wraps around, with N(R) values inside and outside.
C35_Witness ==
    /\ probe.done /\ probe.modulus = 128 /\ probe.va = 126 /\ probe.vs = 1
    /\ probe.result[127] /\ probe.result[0] /\ ~probe.result[2] /\ ~probe.result[125]

\* C36: in Connected and TimerRecovery the entries of iframe_resend_queue are
\* the I-frames V(A), V(A)+1, ... in order: the i-th entry, counting from 0,
\* has N(S) = (V(A) + i) mod modulus.
C36_ResendQueueFromVa ==
    Established =>
       \A i \in 1..Len(data.iframe_resend_queue) :
          data.iframe_resend_queue[i].ns = (data.va + i - 1) % data.modulus

\* C37: every I-frame among the events handle returns carries N(R) = V(R),
\* V(R) taken before or after the event (an accepted I-frame advances it
\* while it is handled).
C37_IframeCarriesVr ==
    ~data.h_panic =>
       \A ev \in AllEvents :
          LET h == Handled(ev)
              out == SelectSeq(h.ret, IsIframePacket)
          IN \A i \in 1..Len(out) :
                out[i].packet_type.iframe.nr \in {data.vr, h.d.vr}

\* C38: in Connected and TimerRecovery, for every N(R) that passes in_range,
\* iframe_resend_queue holds at least (N(R) - V(A)) mod modulus entries, so
\* the assert! of update_ack does not fail.
C38_UpdateAckAssertHolds ==
    (Established /\ ~data.h_panic) =>
       \A nr \in NrInputs :
          in_range(data.va, nr, data.vs, data.modulus) =>
             /\ (nr - data.va + data.modulus) % data.modulus
                   <= Len(data.iframe_resend_queue)
             /\ ~update_ack(data, nr).d.h_panic
             /\ \A poll, command \in BOOLEAN :
                   ~Handled([t |-> "Rr", poll |-> poll, nr |-> nr,
                             command |-> command]).d.h_panic

\* Two I-frames are unacknowledged and an N(R) = V(S) takes both off the
\* resend queue.
C38_Witness ==
    /\ Established /\ ~data.h_panic
    /\ Len(data.iframe_resend_queue) = 2 /\ data.vs = (data.va + 2) % data.modulus
    /\ update_ack(data, data.vs).d.iframe_resend_queue = <<>>
    /\ update_ack(data, data.vs).d.va = data.vs

\* e is a frame that acknowledges up to vr: an RR, an RNR or an I-frame with
\* N(R) = vr.
IsAckOf(e, vr) ==
    /\ e.kind = "Packet"
    /\ \/ e.packet_type.t \in {"Rr", "Rnr"} /\ e.packet_type.nr = vr
       \/ e.packet_type.t = "Iframe" /\ e.packet_type.iframe.nr = vr

\* While an acknowledgement is pending on an established link a timer is
\* running, and a timer expiry or a Data event that clears acknowledge_pending
\* without ending the link returns a frame acknowledging up to V(R).
AckStep ==
    (Established /\ data.acknowledge_pending /\ ~data.h_panic) =>
       /\ data.t1.running \/ data.t3.running
       /\ \A ev \in TimerEvents \cup DataEvents :
             LET h == Handled(ev)
             IN (~h.d.acknowledge_pending /\ h.state # "Disconnected") =>
                   \E i \in 1..Len(h.ret) : IsAckOf(h.ret[i], h.d.vr)

C40_DisconnectedObufEmpty ==
    (state = "Disconnected") => data.obuf = <<>>

====
